---------------------------- MODULE Spec2Model ----------------------------
(***************************************************************************)
(* Model of the authoritative server of the two-player sniper duel:        *)
(*   src/server/GameManager.js  the room registry                          *)
(*   src/server/GameRoom.js     the session (players, timers, actions)     *)
(*   src/server/Player.js       the player record and the ray/box hit test *)
(*   src/unnamed/part_004       the server constants                       *)
(*                                                                         *)
(* Numbers.  Lengths are integers in hundredths of a world unit (1.8 is    *)
(* 180), so that the box bounds and the headshot threshold are exact.      *)
(* Ray parameters and direction components are exact fractions <<n, d>>    *)
(* with d > 0.  Times are integers in units of 500 ms, the greatest common *)
(* divisor of the server's four delays.                                    *)
(*                                                                         *)
(* Clock.  Date.now() is the origin of the time axis in every state: a     *)
(* stored timestamp or timer expiry is kept relative to the present, and   *)
(* the passing of time (Tick) lowers each of them by the time passed.      *)
(* Time passes from one instant at which something expires (a timer, a     *)
(* shot cooldown) to the next: the events of the clients happen at those   *)
(* instants, in any order and number.  A timestamp older than the shot     *)
(* cooldown is kept at -SHOT_COOLDOWN, which no comparison of the code     *)
(* distinguishes from any older one.                                       *)
(***************************************************************************)
EXTENDS Integers, Sequences, FiniteSets, TLC

VARIABLES
    rooms,      \* GameManager.rooms: roomCode -> GameRoom, or NoRoom
    timers,     \* pending setTimeout callbacks, in the order they were armed
    sockets,    \* every connection: its kind and the rooms that listen to it
    sent,       \* how many events the clients have caused so far
    hitTest     \* a call of checkHit on its own: its arguments and result

vars == <<rooms, timers, sockets, sent, hitTest>>

-----------------------------------------------------------------------------
(* Bounds of the model *)

MaxSockets == 3     \* connections ever opened
MaxMessages == 3    \* events of the clients: messages sent and disconnects
MaxVolley == 7      \* the same, where the clients only shoot and reload

-----------------------------------------------------------------------------
(* constants (src/unnamed/part_004:285-304), times in units of 500 ms,     *)
(* lengths in hundredths                                                   *)

TimeUnitMs == 500
MAX_HEALTH == 100
BODY_DAMAGE == 65
HEADSHOT_DAMAGE == 100
RESPAWN_TIME == 6
MAX_AMMO == 5
RELOAD_TIME == 5
SHOT_COOLDOWN == 3
PLAYER_HEIGHT == 180
PLAYER_RADIUS == 40
CLEANUP_DELAY == 30
HeadshotBand == 54       \* PLAYER_HEIGHT * 0.3

Vec(x, y, z) == [x |-> x, y |-> y, z |-> z]

SPAWN_POINTS ==
    << Vec(-4000, 100, -4000), Vec(4000, 100, 4000),
       Vec(-4000, 100, 4000),  Vec(4000, 100, -4000) >>

Now == 0                     \* Date.now(), the origin of the time axis
Epoch == 0 - SHOT_COOLDOWN   \* the timestamp 0 of Player: long past

-----------------------------------------------------------------------------
(* Exact fractions *)

Abs(n) == IF n < 0 THEN 0 - n ELSE n

Frac(n, d) == IF d < 0 THEN <<0 - n, 0 - d>> ELSE <<n, d>>
FromInt(n) == <<n, 1>>
FLt(a, b) == a[1] * b[2] < b[1] * a[2]
FLe(a, b) == a[1] * b[2] <= b[1] * a[2]
FMul(a, b) == <<a[1] * b[1], a[2] * b[2]>>
FAdd(a, b) == <<a[1] * b[2] + b[1] * a[2], a[2] * b[2]>>
FInv(a) == Frac(a[2], a[1])
FAbs(a) == <<Abs(a[1]), a[2]>>
FMaxOf(a, b) == IF FLt(a, b) THEN b ELSE a
FMinOf(a, b) == IF FLt(b, a) THEN b ELSE a

Epsilon == <<1, 100000000>>     \* 1e-8

\* Math.sqrt on the perfect squares, the only arguments the model gives it
Sqrt(n) == CHOOSE r \in 0..n : r * r = n
IsSquare(n) == \E r \in 0..n : r * r = n

-----------------------------------------------------------------------------
(* physics: checkHit (src/server/Player.js:95-179).  A value computed once  *)
(* and read several times by the code is the parameter of the operator     *)
(* that models the lines reading it.                                       *)

NegInf == [inf |-> -1, v |-> <<0, 1>>]
PosInf == [inf |-> 1, v |-> <<0, 1>>]
Fin(f) == [inf |-> 0, v |-> f]

\* Math.max(tMin, t1) and Math.min(tMax, t2), where tMin may be -Infinity
\* and tMax may be Infinity
MathMax(tMin, t1) == IF tMin.inf = -1 THEN Fin(t1) ELSE Fin(FMaxOf(tMin.v, t1))
MathMin(tMax, t2) == IF tMax.inf = 1 THEN Fin(t2) ELSE Fin(FMinOf(tMax.v, t2))

\* tMin > tMax
ExtGt(tMin, tMax) ==
    /\ tMin.inf = 0
    /\ tMax.inf = 0
    /\ FLt(tMax.v, tMin.v)

Miss == [hit |-> FALSE, headshot |-> FALSE, distance |-> Fin(<<0, 1>>)]

\* the narrowed interval, and whether the ray can still hit (tMin <= tMax)
Narrowed(tMin, tMax) ==
    [ok |-> ~ExtGt(tMin, tMax), tMin |-> tMin, tMax |-> tMax]

\* t1 and t2 are the two crossings of the axis, a and b, in order
Narrow(acc, a, b) ==
    Narrowed(MathMax(acc.tMin, FMinOf(a, b)), MathMin(acc.tMax, FMaxOf(a, b)))

\* the slab test that takes every component below 1 for parallel
SlabAxisCoarse(acc, o, d, lo, hi) ==
    IF ~acc.ok THEN acc
    ELSE IF FLt(FAbs(d), <<1, 1>>)
    THEN IF o < lo \/ o > hi
         THEN [acc EXCEPT !.ok = FALSE]
         ELSE acc
    ELSE Narrow(acc, FMul(FromInt(lo - o), FInv(d)),
                     FMul(FromInt(hi - o), FInv(d)))

\* One axis of the slab test: acc is [ok, tMin, tMax] after the axes before
\* it (ok is false once the code has returned a miss); o and d are the ray's
\* origin and direction on the axis, lo and hi the box bounds.
SlabAxis(acc, o, d, lo, hi) ==
    IF ~acc.ok THEN acc
    ELSE IF FLt(FAbs(d), Epsilon)
    THEN IF o < lo \/ o > hi
         THEN [acc EXCEPT !.ok = FALSE]
         ELSE acc
    ELSE Narrow(acc, FMul(FromInt(lo - o), FInv(d)),
                     FMul(FromInt(hi - o), FInv(d)))

\* the headshot comparison turned round
HitAtBelow(tHit, originY, directionY, headshotThreshold) ==
    [hit |-> TRUE,
     headshot |-> FLe(FAdd(FromInt(originY), FMul(directionY, tHit)),
                      FromInt(headshotThreshold)),
     distance |-> Fin(tHit)]

\* the headshot band taken for the upper half of the box
HitAtUpperHalf(tHit, originY, directionY, headshotThreshold) ==
    [hit |-> TRUE,
     headshot |-> FLe(FromInt(headshotThreshold - (PLAYER_HEIGHT \div 2 - HeadshotBand)),
                      FAdd(FromInt(originY), FMul(directionY, tHit))),
     distance |-> Fin(tHit)]

\* lines 169-178: tHit is the entry parameter
HitAt(tHit, originY, directionY, headshotThreshold) ==
    [hit |-> TRUE,
     headshot |-> FLe(FromInt(headshotThreshold),
                      FAdd(FromInt(originY), FMul(directionY, tHit))),
     distance |-> Fin(tHit)]

\* the verdict without the test of line 165 (tMax < 0)
VerdictBackward(slab, originY, directionY, headshotThreshold) ==
    IF ~slab.ok THEN Miss
    ELSE IF slab.tMax.inf = 1
    THEN [hit |-> TRUE, headshot |-> FALSE, distance |-> PosInf]
    ELSE HitAt(IF slab.tMin.inf = 0 /\ FLe(<<0, 1>>, slab.tMin.v)
               THEN slab.tMin.v ELSE slab.tMax.v,
               originY, directionY, headshotThreshold)

\* the verdict whose distance is always the exit parameter
VerdictExit(slab, originY, directionY, headshotThreshold) ==
    IF ~slab.ok THEN Miss
    ELSE IF slab.tMax.inf = 1
    THEN [hit |-> TRUE, headshot |-> FALSE, distance |-> PosInf]
    ELSE IF FLt(slab.tMax.v, <<0, 1>>) THEN Miss
    ELSE HitAt(slab.tMax.v, originY, directionY, headshotThreshold)

\* lines 164-178, after the three axes.  With every axis parallel tMin is
\* still -Infinity and tMax Infinity: the distance is Infinity and hitY is
\* NaN, which no comparison finds at or above the threshold.
Verdict(slab, originY, directionY, headshotThreshold) ==
    IF ~slab.ok THEN Miss
    ELSE IF slab.tMax.inf = 1
    THEN [hit |-> TRUE, headshot |-> FALSE, distance |-> PosInf]
    ELSE IF FLt(slab.tMax.v, <<0, 1>>) THEN Miss
    ELSE HitAt(IF slab.tMin.inf = 0 /\ FLe(<<0, 1>>, slab.tMin.v)
               THEN slab.tMin.v ELSE slab.tMax.v,
               originY, directionY, headshotThreshold)

\* result.distance < hitResult.distance
DistLt(a, b) ==
    IF a.inf = 1 THEN FALSE
    ELSE IF b.inf = 1 THEN TRUE
    ELSE FLt(a.v, b.v)

\* checkHit that takes targetPos for the foot of the box
checkHitFromFoot(shooterPos, direction, targetPos, height, radius) ==
    Verdict(
        SlabAxis(
            SlabAxis(
                SlabAxis([ok |-> TRUE, tMin |-> NegInf, tMax |-> PosInf],
                         shooterPos.x, direction.x,
                         targetPos.x - radius, targetPos.x + radius),
                shooterPos.y, direction.y,
                targetPos.y, targetPos.y + height),
            shooterPos.z, direction.z,
            targetPos.z - radius, targetPos.z + radius),
        shooterPos.y, direction.y,
        targetPos.y + height - HeadshotBand)

checkHit(shooterPos, direction, targetPos, height, radius) ==
    Verdict(
        SlabAxis(
            SlabAxis(
                SlabAxis([ok |-> TRUE, tMin |-> NegInf, tMax |-> PosInf],
                         shooterPos.x, direction.x,
                         targetPos.x - radius, targetPos.x + radius),
                shooterPos.y, direction.y,
                targetPos.y - height \div 2, targetPos.y + height \div 2),
            shooterPos.z, direction.z,
            targetPos.z - radius, targetPos.z + radius),
        shooterPos.y, direction.y,
        targetPos.y + height \div 2 - HeadshotBand)

-----------------------------------------------------------------------------
(* Player (src/server/Player.js:6-71) *)

NoValue == [none |-> TRUE]      \* undefined / null / a missing field

Player(id, username) ==
    [id |-> id,
     username |-> username,
     health |-> MAX_HEALTH,
     position |-> Vec(0, 100, 0),
     rotation |-> Vec(0, 0, 0),
     kills |-> 0,
     deaths |-> 0,
     ammo |-> MAX_AMMO,
     isAlive |-> TRUE,
     lastShotTime |-> Epoch,
     isReloading |-> FALSE]

\* reset that does not refill the magazine
resetKeepsAmmo(p) ==
    [p EXCEPT !.health = MAX_HEALTH,
              !.isAlive = TRUE,
              !.lastShotTime = Epoch,
              !.isReloading = FALSE]

reset(p) ==
    [p EXCEPT !.health = MAX_HEALTH,
              !.ammo = MAX_AMMO,
              !.isAlive = TRUE,
              !.lastShotTime = Epoch,
              !.isReloading = FALSE]

\* takeDamage that does not clamp the health at 0
takeDamageUnclamped(p, amount) ==
    IF ~p.isAlive
    THEN [player |-> p, killed |-> FALSE]
    ELSE [player |-> [p EXCEPT !.health = @ - amount,
                               !.isAlive = p.health - amount > 0],
          killed |-> p.health - amount <= 0]

\* takeDamage that leaves a player without health alive
takeDamageStillAlive(p, amount) ==
    IF ~p.isAlive
    THEN [player |-> p, killed |-> FALSE]
    ELSE IF p.health - amount <= 0
    THEN [player |-> [p EXCEPT !.health = 0], killed |-> TRUE]
    ELSE [player |-> [p EXCEPT !.health = @ - amount], killed |-> FALSE]

\* the player after the damage, and the value takeDamage returns
takeDamage(p, amount) ==
    IF ~p.isAlive
    THEN [player |-> p, killed |-> FALSE]
    ELSE IF p.health - amount <= 0
    THEN [player |-> [p EXCEPT !.health = 0, !.isAlive = FALSE], killed |-> TRUE]
    ELSE [player |-> [p EXCEPT !.health = @ - amount], killed |-> FALSE]

getState(p) ==
    [id |-> p.id, username |-> p.username, position |-> p.position,
     rotation |-> p.rotation, health |-> p.health, kills |-> p.kills,
     deaths |-> p.deaths, ammo |-> p.ammo, isAlive |-> p.isAlive]

-----------------------------------------------------------------------------
(* The players Map of a room: a sequence of Player records in insertion    *)
(* order, one per key.  The sockets Map of a room is set and deleted with  *)
(* it and holds the same keys.                                             *)

MapHas(ps, id) == \E i \in 1..Len(ps) : ps[i].id = id
MapIndex(ps, id) == CHOOSE i \in 1..Len(ps) : ps[i].id = id
MapGet(ps, id) == ps[MapIndex(ps, id)]
MapSet(ps, p) ==
    IF MapHas(ps, p.id)
    THEN [ps EXCEPT ![MapIndex(ps, p.id)] = p]
    ELSE Append(ps, p)
MapDelete(ps, id) == SelectSeq(ps, LAMBDA p : p.id # id)

-----------------------------------------------------------------------------
(* GameRoom (src/server/GameRoom.js).  A handler is an operator from the   *)
(* server's state W = [rooms, timers, sockets, out] to the state after it; *)
(* out collects what it emits.                                             *)

NoRoom == [none |-> TRUE]

GameRoom ==
    [players |-> <<>>,
     running |-> FALSE,
     gameLoopInterval |-> FALSE,    \* the handle is set
     tickTimers |-> 0,              \* setInterval timers of the room not cleared
     cleanupTimer |-> FALSE]        \* the handle is set

ToSocket(s) == [kind |-> "socket", code |-> "", id |-> s]
ToRoom(c) == [kind |-> "room", code |-> c, id |-> 0]
ToOthers(c, s) == [kind |-> "others", code |-> c, id |-> s]

Msg(to, type, data) == [to |-> to, type |-> type, data |-> data]

Emit(W, to, type, data) == [W EXCEPT !.out = Append(@, Msg(to, type, data))]

SetRoom(W, c, room) == [W EXCEPT !.rooms[c] = room]

SetPlayer(W, c, p) == [W EXCEPT !.rooms[c].players = MapSet(@, p)]

Timer(kind, c, id, delay) ==
    [kind |-> kind, code |-> c, id |-> id, due |-> Now + delay, handle |-> FALSE]

\* setTimeout: the callback is queued behind those armed before it
setTimeout(W, kind, c, id, delay) ==
    [W EXCEPT !.timers = Append(@, Timer(kind, c, id, delay))]

IsCleanup(t, c) == t.kind = "cleanup" /\ t.code = c

Unhandled(ts, c) ==
    [i \in 1..Len(ts) |->
        IF IsCleanup(ts[i], c) THEN [ts[i] EXCEPT !.handle = FALSE] ELSE ts[i]]

\* the handle set and no timer armed
setCleanupHandleOnly(W, c) ==
    [W EXCEPT !.rooms[c].cleanupTimer = TRUE]

\* this._cleanupTimer = setTimeout(...): the room's handle now names the new
\* timer and no longer any older one
setCleanupTimeout(W, c) ==
    [W EXCEPT
        !.timers = Append(Unhandled(@, c),
                          [Timer("cleanup", c, 0, CLEANUP_DELAY)
                              EXCEPT !.handle = TRUE]),
        !.rooms[c].cleanupTimer = TRUE]

\* clearTimeout(this._cleanupTimer): cancels the timer the handle names, if
\* it is still pending
clearCleanupTimeout(W, c) ==
    [W EXCEPT !.timers = SelectSeq(@, LAMBDA t : ~(IsCleanup(t, c) /\ t.handle))]

\* stopGame that leaves the interval running
stopGameKeepsInterval(W, c) ==
    [W EXCEPT !.rooms[c].running = FALSE]

stopGame(W, c) ==
    [W EXCEPT !.rooms[c].tickTimers =
                  IF W.rooms[c].gameLoopInterval THEN @ - 1 ELSE @,
              !.rooms[c].gameLoopInterval = FALSE,
              !.rooms[c].running = FALSE]

startGameLoop(W, c) ==
    [W EXCEPT !.rooms[c].gameLoopInterval = TRUE,
              !.rooms[c].tickTimers = @ + 1]

\* a start that resets every player it places
PlaceAndReset(ps) ==
    [i \in 1..Len(ps) |->
        [reset(ps[i]) EXCEPT !.position = SPAWN_POINTS[((i - 1) % Len(SPAWN_POINTS)) + 1]]]

\* spawn points handed out from the second entry of the pool on
PlaceFromSecond(ps) ==
    [i \in 1..Len(ps) |->
        [ps[i] EXCEPT !.position = SPAWN_POINTS[(i % Len(SPAWN_POINTS)) + 1]]]

\* lines 115-121: spawn points in the order of the Map's keys
PlaceAtSpawn(ps) ==
    [i \in 1..Len(ps) |->
        [ps[i] EXCEPT !.position = SPAWN_POINTS[((i - 1) % Len(SPAWN_POINTS)) + 1]]]

States(ps) == [i \in 1..Len(ps) |-> getState(ps[i])]

\* lines 115-129
Started(W, c) ==
    [W EXCEPT !.rooms[c].players = PlaceAtSpawn(@),
              !.rooms[c].running = TRUE,
              !.out = Append(@, Msg(ToRoom(c), "game:start",
                                    States(PlaceAtSpawn(W.rooms[c].players))))]

startGame(W, c) ==
    IF W.rooms[c].running THEN W ELSE startGameLoop(Started(W, c), c)

\* a join that leaves the cleanup timer pending
CancelCleanupNever(W, c) == W

\* lines 41-45
CancelCleanup(W, c) ==
    IF W.rooms[c].cleanupTimer
    THEN [clearCleanupTimeout(W, c) EXCEPT !.rooms[c].cleanupTimer = FALSE]
    ELSE W

\* lines 47-70
Joined(W, c, s, username) ==
    [W EXCEPT !.rooms[c].players = MapSet(@, Player(s, username)),
              !.sockets[s].handlers = Append(@, c),
              !.out = @ \o <<Msg(ToSocket(s), "room:joined", c),
                             Msg(ToOthers(c, s), "player:joined", username)>>]

\* a start at every join, whatever the number of players
StartOnJoin(W, c) == startGame(W, c)

\* lines 72-74
StartIfFull(W, c) ==
    IF Len(W.rooms[c].players) = 2 THEN startGame(W, c) ELSE W

\* addPlayer without the check of lines 36-39
addPlayerAnyway(W, c, s, username) ==
    StartIfFull(Joined(CancelCleanup(W, c), c, s, username), c)

addPlayer(W, c, s, username) ==
    IF Len(W.rooms[c].players) >= 2
    THEN Emit(W, ToSocket(s), "room:error", "Room is full")
    ELSE StartIfFull(Joined(CancelCleanup(W, c), c, s, username), c)

\* the room object a handler or a timer closes over: once the registry has
\* dropped it, it holds no player
Dropped(W, c) == W.rooms[c] = NoRoom

Absent(W, c, s) == Dropped(W, c) \/ ~MapHas(W.rooms[c].players, s)

\* a departure that announces the player and keeps it in the Map
LeftInPlace(W, c, s) ==
    Emit(W, ToRoom(c), "player:disconnected", MapGet(W.rooms[c].players, s).username)

\* lines 84-89
Left(W, c, s) ==
    [W EXCEPT !.rooms[c].players = MapDelete(@, s),
              !.out = Append(@, Msg(ToRoom(c), "player:disconnected",
                                    MapGet(W.rooms[c].players, s).username))]

\* what follows a departure when only the empty room is looked after
AfterLeaveOnlyEmpty(W, c) ==
    IF Len(W.rooms[c].players) = 0
    THEN setCleanupTimeout(stopGame(W, c), c)
    ELSE W

\* what follows a departure when no cleanup is scheduled for the empty room
AfterLeaveNoTimer(W, c) ==
    IF Len(W.rooms[c].players) = 0
    THEN stopGame(W, c)
    ELSE IF W.rooms[c].running
    THEN Emit(stopGame(W, c), ToRoom(c), "game:over", "opponent_left")
    ELSE W

\* lines 91-103
AfterLeave(W, c) ==
    IF Len(W.rooms[c].players) = 0
    THEN setCleanupTimeout(stopGame(W, c), c)
    ELSE IF W.rooms[c].running
    THEN Emit(stopGame(W, c), ToRoom(c), "game:over", "opponent_left")
    ELSE W

removePlayer(W, c, s) ==
    IF Absent(W, c, s) THEN W ELSE AfterLeave(Left(W, c, s), c)

broadcastState(W, c) ==
    Emit(W, ToRoom(c), "game:state", States(W.rooms[c].players))

-----------------------------------------------------------------------------
(* GameRoom: the action handlers *)

\* lines 177-190
Moved(player, data) ==
    [player EXCEPT
        !.position = IF data.position # NoValue THEN data.position ELSE @,
        !.rotation = IF data.rotation # NoValue THEN data.rotation ELSE @]

\* the update without the check of line 175 for a dead player
UpdateByAnyone(W, c, player, data) == SetPlayer(W, c, Moved(player, data))

UpdateBy(W, c, player, data) ==
    IF ~player.isAlive THEN W ELSE SetPlayer(W, c, Moved(player, data))

handlePlayerUpdate(W, c, s, data) ==
    IF Absent(W, c, s) THEN W
    ELSE UpdateBy(W, c, MapGet(W.rooms[c].players, s), data)

SquaredDistance(a, b) ==
    (a.x - b.x) * (a.x - b.x) + (a.y - b.y) * (a.y - b.y)
        + (a.z - b.z) * (a.z - b.z)

\* the scan that keeps the last of the farthest points, not the first
RECURSIVE SpawnScanLast(_, _, _)
SpawnScanLast(i, otherPos, best) ==
    IF i > Len(SPAWN_POINTS) THEN best.spawn
    ELSE IF SquaredDistance(SPAWN_POINTS[i], otherPos) >= best.dist
    THEN SpawnScanLast(i + 1, otherPos,
                       [spawn |-> SPAWN_POINTS[i],
                        dist |-> SquaredDistance(SPAWN_POINTS[i], otherPos)])
    ELSE SpawnScanLast(i + 1, otherPos, best)

\* the scan of lines 405-417 from entry i on: best is [spawn, dist]
RECURSIVE SpawnScan(_, _, _)
SpawnScan(i, otherPos, best) ==
    IF i > Len(SPAWN_POINTS) THEN best.spawn
    ELSE IF SquaredDistance(SPAWN_POINTS[i], otherPos) > best.dist
    THEN SpawnScan(i + 1, otherPos,
                   [spawn |-> SPAWN_POINTS[i],
                    dist |-> SquaredDistance(SPAWN_POINTS[i], otherPos)])
    ELSE SpawnScan(i + 1, otherPos, best)

\* others: the players the forEach of lines 395-399 visits with another id;
\* it leaves the position of the last one
SpawnAwayFrom(others) ==
    IF Len(others) = 0 THEN SPAWN_POINTS[1]
    ELSE SpawnScan(1, others[Len(others)].position,
                   [spawn |-> SPAWN_POINTS[1], dist |-> -1])

getSpawnPoint(room, avoidPlayerId) ==
    SpawnAwayFrom(SelectSeq(room.players, LAMBDA p : p.id # avoidPlayerId))

\* lines 373-385
PlacedAt(W, c, player, spawn) ==
    Emit(SetPlayer(W, c, [player EXCEPT !.position = spawn]),
         ToSocket(player.id), "player:respawned",
         [id |-> player.id, position |-> spawn, health |-> player.health])

\* lines 371-372, the player being reset
Respawned(W, c, playerId) ==
    PlacedAt(W, c, MapGet(W.rooms[c].players, playerId),
             getSpawnPoint(W.rooms[c], playerId))

respawnPlayer(W, c, playerId) ==
    IF Absent(W, c, playerId) THEN W
    ELSE Respawned(SetPlayer(W, c, reset(MapGet(W.rooms[c].players, playerId))),
                   c, playerId)

\* a death that is counted for the victim and not for the killer
ScoredVictimOnly(W, c, victim, killer, headshot) ==
    [W EXCEPT
        !.rooms[c].players =
            MapSet(MapSet(@, [victim EXCEPT !.deaths = @ + 1]),
                   killer),
        !.out = @ \o
            << Msg(ToRoom(c), "player:killed",
                   [killerId |-> killer.id, victimId |-> victim.id,
                    headshot |-> headshot, killerKills |-> killer.kills + 1,
                    victimDeaths |-> victim.deaths + 1]),
               Msg(ToSocket(victim.id), "player:died",
                   [killerName |-> killer.username,
                    respawnTime |-> (RESPAWN_TIME * TimeUnitMs + 999) \div 1000]) >>]

\* lines 331-356
Scored(W, c, victim, killer, headshot) ==
    [W EXCEPT
        !.rooms[c].players =
            MapSet(MapSet(@, [victim EXCEPT !.deaths = @ + 1]),
                   [killer EXCEPT !.kills = @ + 1]),
        !.out = @ \o
            << Msg(ToRoom(c), "player:killed",
                   [killerId |-> killer.id, victimId |-> victim.id,
                    headshot |-> headshot, killerKills |-> killer.kills + 1,
                    victimDeaths |-> victim.deaths + 1]),
               Msg(ToSocket(victim.id), "player:died",
                   [killerName |-> killer.username,
                    respawnTime |-> (RESPAWN_TIME * TimeUnitMs + 999) \div 1000]) >>]

handlePlayerDeath(W, c, victimId, killerId, headshot) ==
    setTimeout(Scored(W, c, MapGet(W.rooms[c].players, victimId),
                      MapGet(W.rooms[c].players, killerId), headshot),
               "respawn", c, victimId, RESPAWN_TIME)

\* lines 251-263, the forEach over the players from entry i on: best is the
\* closest hit so far as [result, target], NoValue before the first
RECURSIVE ClosestHit(_, _, _, _, _, _)

Closer(ps, i, shooterId, origin, dir, best, result) ==
    ClosestHit(ps, i + 1, shooterId, origin, dir,
               IF result.hit /\ (best = NoValue
                                 \/ DistLt(result.distance, best.result.distance))
               THEN [result |-> result, target |-> ps[i].id]
               ELSE best)

ClosestHit(ps, i, shooterId, origin, dir, best) ==
    IF i > Len(ps) THEN best
    ELSE IF ps[i].id = shooterId \/ ~ps[i].isAlive
    THEN ClosestHit(ps, i + 1, shooterId, origin, dir, best)
    ELSE Closer(ps, i, shooterId, origin, dir, best,
                checkHit(origin, dir, ps[i].position,
                         PLAYER_HEIGHT, PLAYER_RADIUS))

SquaredLength(v) == v.x * v.x + v.y * v.y + v.z * v.z

\* lines 239-243
Normalize(direction, len) ==
    [x |-> Frac(direction.x, len),
     y |-> Frac(direction.y, len),
     z |-> Frac(direction.z, len)]

\* lines 285-287
KilledThen(W, c, killed, victimId, killerId, headshot) ==
    IF killed THEN handlePlayerDeath(W, c, victimId, killerId, headshot) ELSE W

\* a hit confirmed to the whole room
DamagedAnnounced(W, c, s, after, damage, headshot) ==
    KilledThen(
        Emit(SetPlayer(W, c, after.player), ToRoom(c), "hit:confirmed",
             [targetId |-> after.player.id, damage |-> damage,
              headshot |-> headshot]),
        c, after.killed, after.player.id, s, headshot)

\* lines 267-287: after is what takeDamage made of the target
Damaged(W, c, s, after, damage, headshot) ==
    KilledThen(
        Emit(SetPlayer(W, c, after.player), ToSocket(s), "hit:confirmed",
             [targetId |-> after.player.id, damage |-> damage,
              headshot |-> headshot]),
        c, after.killed, after.player.id, s, headshot)

\* lines 265-292: best is the closest hit, or NoValue
Outcome(W, c, s, best, damage) ==
    IF best = NoValue
    THEN Emit(W, ToSocket(s), "shoot:miss", NoValue)
    ELSE Damaged(W, c, s,
                 takeDamage(MapGet(W.rooms[c].players, best.target), damage),
                 damage, best.result.headshot)

DamageOf(best) ==
    IF best # NoValue /\ best.result.headshot THEN HEADSHOT_DAMAGE ELSE BODY_DAMAGE

ResolveShot(W, c, s, best) == Outcome(W, c, s, best, DamageOf(best))

\* lines 227-263: the shot was admitted
Aimed(W, c, s, origin, direction) ==
    IF direction = NoValue THEN W
    ELSE IF SquaredLength(direction) = 0 THEN W
    ELSE ResolveShot(W, c, s,
            ClosestHit(W.rooms[c].players, 1, s, origin,
                       Normalize(direction, Sqrt(SquaredLength(direction))),
                       NoValue))

\* the shot that takes no round from the magazine
ConsumedNothing(shooter) ==
    [shooter EXCEPT !.lastShotTime = Now]

\* lines 223-225
Consumed(shooter) ==
    [shooter EXCEPT !.ammo = @ - 1, !.lastShotTime = Now]

\* the checks of handlePlayerShoot without the cooldown
ShootByAnyTime(W, c, shooter, data) ==
    IF ~shooter.isAlive THEN W
    ELSE IF shooter.isReloading
    THEN Emit(W, ToSocket(shooter.id), "shoot:denied", "reloading")
    ELSE IF shooter.ammo <= 0
    THEN Emit(W, ToSocket(shooter.id), "shoot:denied", "no_ammo")
    ELSE Aimed(SetPlayer(W, c, Consumed(shooter)), c, shooter.id,
               IF data.origin # NoValue THEN data.origin ELSE shooter.position,
               data.direction)

\* the checks of handlePlayerShoot with the magazine looked at first
ShootByAmmoFirst(W, c, shooter, data) ==
    IF ~shooter.isAlive THEN W
    ELSE IF shooter.ammo <= 0
    THEN Emit(W, ToSocket(shooter.id), "shoot:denied", "no_ammo")
    ELSE IF shooter.isReloading
    THEN Emit(W, ToSocket(shooter.id), "shoot:denied", "reloading")
    ELSE IF Now - shooter.lastShotTime < SHOT_COOLDOWN
    THEN Emit(W, ToSocket(shooter.id), "shoot:denied", "cooldown")
    ELSE Aimed(SetPlayer(W, c, Consumed(shooter)), c, shooter.id,
               IF data.origin # NoValue THEN data.origin ELSE shooter.position,
               data.direction)

ShootBy(W, c, shooter, data) ==
    IF ~shooter.isAlive THEN W
    ELSE IF shooter.isReloading
    THEN Emit(W, ToSocket(shooter.id), "shoot:denied", "reloading")
    ELSE IF Now - shooter.lastShotTime < SHOT_COOLDOWN
    THEN Emit(W, ToSocket(shooter.id), "shoot:denied", "cooldown")
    ELSE IF shooter.ammo <= 0
    THEN Emit(W, ToSocket(shooter.id), "shoot:denied", "no_ammo")
    ELSE Aimed(SetPlayer(W, c, Consumed(shooter)), c, shooter.id,
               IF data.origin # NoValue THEN data.origin ELSE shooter.position,
               data.direction)

handlePlayerShoot(W, c, s, data) ==
    IF Absent(W, c, s) THEN W
    ELSE ShootBy(W, c, MapGet(W.rooms[c].players, s), data)

\* the end of a reload that fills the magazine and leaves the flag set
ReloadedStillReloading(W, c, p) ==
    Emit(SetPlayer(W, c, [p EXCEPT !.ammo = MAX_AMMO]),
         ToRoom(c), "player:reloaded", [id |-> p.id, ammo |-> MAX_AMMO])

\* lines 315-323
Reloaded(W, c, p) ==
    Emit(SetPlayer(W, c, [p EXCEPT !.ammo = MAX_AMMO, !.isReloading = FALSE]),
         ToRoom(c), "player:reloaded", [id |-> p.id, ammo |-> MAX_AMMO])

\* the callback of the reload timer (lines 310-324)
reloadDone(W, c, s) ==
    IF Absent(W, c, s) THEN W
    ELSE Reloaded(W, c, MapGet(W.rooms[c].players, s))

\* the checks of handlePlayerReload without the one for a reload under way
ReloadByAgain(W, c, player) ==
    IF ~player.isAlive THEN W
    ELSE IF player.ammo = MAX_AMMO THEN W
    ELSE setTimeout(
            Emit(SetPlayer(W, c, [player EXCEPT !.isReloading = TRUE]),
                 ToRoom(c), "player:reloading", player.id),
            "reload", c, player.id, RELOAD_TIME)

\* the checks of handlePlayerReload without the one for a full magazine
ReloadByFull(W, c, player) ==
    IF ~player.isAlive THEN W
    ELSE IF player.isReloading THEN W
    ELSE setTimeout(
            Emit(SetPlayer(W, c, [player EXCEPT !.isReloading = TRUE]),
                 ToRoom(c), "player:reloading", player.id),
            "reload", c, player.id, RELOAD_TIME)

\* lines 300-324
ReloadBy(W, c, player) ==
    IF ~player.isAlive THEN W
    ELSE IF player.isReloading THEN W
    ELSE IF player.ammo = MAX_AMMO THEN W
    ELSE setTimeout(
            Emit(SetPlayer(W, c, [player EXCEPT !.isReloading = TRUE]),
                 ToRoom(c), "player:reloading", player.id),
            "reload", c, player.id, RELOAD_TIME)

handlePlayerReload(W, c, s) ==
    IF Absent(W, c, s) THEN W
    ELSE ReloadBy(W, c, MapGet(W.rooms[c].players, s))

-----------------------------------------------------------------------------
(* GameManager (src/server/GameManager.js) *)

Codes == {"AAAA", "BBBB"}   \* the room codes of the model

toUpperCase(str) ==
    CASE str = "aaaa" -> "AAAA"
      [] str = "bbbb" -> "BBBB"
      [] OTHER -> str

\* removeRoom that announces the removal whether or not the room exists
removeRoomAnnounced(W, roomCode) ==
    Emit(IF W.rooms[roomCode] = NoRoom THEN W
         ELSE [stopGame(W, roomCode) EXCEPT !.rooms[roomCode] = NoRoom],
         ToRoom(roomCode), "room:removed", roomCode)

removeRoom(W, roomCode) ==
    IF W.rooms[roomCode] = NoRoom THEN W
    ELSE [stopGame(W, roomCode) EXCEPT !.rooms[roomCode] = NoRoom]

\* a recreation that replaces the whole registry by the one new room
RecreatedAlone(W, code) ==
    IF W.rooms[code] = NoRoom
    THEN [W EXCEPT !.rooms = [c \in Codes |-> IF c = code THEN GameRoom ELSE NoRoom]]
    ELSE W

\* lines 36-43
Recreated(W, code) ==
    IF W.rooms[code] = NoRoom THEN SetRoom(W, code, GameRoom) ELSE W

handleGamePageConnection(W, s, roomCode, username) ==
    addPlayer(Recreated(W, toUpperCase(roomCode)), toUpperCase(roomCode),
              s, username)

handleConnection(W, s, query) ==
    IF query.room # "" /\ query.username # "" /\ query.room # "default"
    THEN handleGamePageConnection(
            [W EXCEPT !.sockets[s].status = "game"], s, query.room, query.username)
    ELSE [W EXCEPT !.sockets[s].status = "lobby"]

\* room:create without the check of lines 53-56
onRoomCreateUnchecked(W, s, username, roomCode) ==
    Emit(addPlayer(SetRoom(W, roomCode, GameRoom), roomCode, s, username),
         ToSocket(s), "room:created", roomCode)

\* the room:create listener; roomCode is what generateRoomCode returned
onRoomCreate(W, s, username, roomCode) ==
    IF username = ""
    THEN Emit(W, ToSocket(s), "room:error", "Username is required")
    ELSE Emit(addPlayer(SetRoom(W, roomCode, GameRoom), roomCode, s, username),
              ToSocket(s), "room:created", roomCode)

\* lines 81-97: code is the room code in upper case
JoinByCode(W, s, code, username) ==
    IF code \notin Codes \/ W.rooms[code] = NoRoom
    THEN Emit(W, ToSocket(s), "room:error", "Room not found")
    ELSE IF Len(W.rooms[code].players) >= 2
    THEN Emit(W, ToSocket(s), "room:error", "Room is full")
    ELSE addPlayer(W, code, s, username)

\* the room:join listener
onRoomJoin(W, s, roomCode, username) ==
    IF username = ""
    THEN Emit(W, ToSocket(s), "room:error", "Username is required")
    ELSE IF roomCode = ""
    THEN Emit(W, ToSocket(s), "room:error", "Room code is required")
    ELSE JoinByCode(W, s, toUpperCase(roomCode), username)

\* a generator that does not look at the registry
generateAnyCode(W) == Codes

\* the codes generateRoomCode can return: those the registry does not hold
generateRoomCode(W) == {code \in Codes : W.rooms[code] = NoRoom}

-----------------------------------------------------------------------------
(* A socket event reaches every listener registered on the socket, in the  *)
(* order of registration: addPlayer registers one listener per event for   *)
(* its room.                                                               *)

Listener(W, c, s, msg) ==
    CASE msg.type = "player:update" -> handlePlayerUpdate(W, c, s, msg.data)
      [] msg.type = "player:shoot" -> handlePlayerShoot(W, c, s, msg.data)
      [] msg.type = "player:reload" -> handlePlayerReload(W, c, s)
      [] msg.type = "disconnect" -> removePlayer(W, c, s)

RECURSIVE Deliver(_, _, _, _, _)
Deliver(W, listeners, i, s, msg) ==
    IF i > Len(listeners) THEN W
    ELSE Deliver(Listener(W, listeners[i], s, msg), listeners, i + 1, s, msg)

\* the callback of a timer
Callback(W, t) ==
    CASE t.kind = "reload" -> reloadDone(W, t.code, t.id)
      [] t.kind = "respawn" -> respawnPlayer(W, t.code, t.id)
      [] t.kind = "cleanup" ->
            IF Dropped(W, t.code) \/ Len(W.rooms[t.code].players) = 0
            THEN removeRoom(W, t.code)
            ELSE W

-----------------------------------------------------------------------------
(* Inputs *)

Sockets == 1..MaxSockets
Usernames == {"ann"}
QueryRooms == {"", "default", "AAAA", "aaaa", "BBBB"}
JoinCodes == {"", "AAAA", "aaaa", "BBBB", "ZZZZ"}

\* player:update payloads
Aside == Vec(-4000, 100, 0)
Turned == Vec(0, 50, 0)
UpdateData ==
    { [position |-> Aside, rotation |-> Turned],
      [position |-> NoValue, rotation |-> NoValue] }

\* player:shoot payloads: no direction, a zero direction, a ray from the
\* shooter's own position, and rays at the body and the head of a player
\* standing on the second spawn point and at the head of one on the first
ShootData ==
    { [origin |-> NoValue, direction |-> NoValue],
      [origin |-> NoValue, direction |-> Vec(0, 0, 0)],
      [origin |-> NoValue, direction |-> Vec(0, 0, -1)],
      [origin |-> Vec(4000, 100, 3000), direction |-> Vec(0, 0, 2)],
      [origin |-> Vec(4000, 150, 3000), direction |-> Vec(0, 0, 2)],
      [origin |-> Vec(-4300, 150, -4400), direction |-> Vec(3, 0, 4)] }

-----------------------------------------------------------------------------
(* The state machine.  What a handler emits is W.out, a value of the state *)
(* before it and of its input; only what it stores is kept.                *)

World == [rooms |-> rooms, timers |-> timers, sockets |-> sockets, out |-> <<>>]

Commit(W) ==
    /\ rooms' = W.rooms
    /\ timers' = W.timers
    /\ sockets' = W.sockets
    /\ UNCHANGED hitTest

Open(s) == sockets[s].status \in {"lobby", "game"}

Init ==
    /\ rooms = [c \in Codes |-> NoRoom]
    /\ timers = <<>>
    /\ sockets = [s \in Sockets |-> [status |-> "new", handlers |-> <<>>]]
    /\ sent = 0
    /\ hitTest = NoValue

\* io.on('connection'): connections are numbered in the order they open
Connect(s, query) ==
    /\ sockets[s].status = "new"
    /\ \A r \in Sockets : r < s => sockets[r].status # "new"
    /\ Commit(handleConnection(World, s, query))
    /\ UNCHANGED sent

Create(s, username, roomCode) ==
    /\ sockets[s].status = "lobby"
    /\ sent < MaxMessages
    /\ roomCode \in generateRoomCode(World)
    /\ Commit(onRoomCreate(World, s, username, roomCode))
    /\ sent' = sent + 1

Join(s, roomCode, username) ==
    /\ sockets[s].status = "lobby"
    /\ sent < MaxMessages
    /\ Commit(onRoomJoin(World, s, roomCode, username))
    /\ sent' = sent + 1

\* what the listeners of s make of msg
Received(s, msg) == Deliver(World, sockets[s].handlers, 1, s, msg)

Message(s, msg, budget) ==
    /\ Open(s)
    /\ sockets[s].handlers # <<>>
    /\ sent < budget
    /\ Commit(Received(s, msg))
    /\ sent' = sent + 1

UpdateMsg(data) == [type |-> "player:update", data |-> data]
ShootMsg(data) == [type |-> "player:shoot", data |-> data]
ReloadMsg == [type |-> "player:reload", data |-> NoValue]
DisconnectMsg == [type |-> "disconnect", data |-> NoValue]

Update(s, data) == Message(s, UpdateMsg(data), MaxMessages)

Shoot(s, data) == Message(s, ShootMsg(data), MaxMessages)

Reload(s) == Message(s, ReloadMsg, MaxMessages)

\* the connection closes: its disconnect listeners run and it is gone
Disconnect(s) ==
    /\ Open(s)
    /\ sent < MaxMessages
    /\ Commit([Received(s, DisconnectMsg) EXCEPT
                  !.sockets[s] = [status |-> "closed", handlers |-> <<>>]])
    /\ sent' = sent + 1

Due(t) == t.due <= Now

Without(seq, i) ==
    [k \in 1..(Len(seq) - 1) |-> IF k < i THEN seq[k] ELSE seq[k + 1]]

\* what the callback of the pending timer i does when it fires
Fired(i) == Callback([World EXCEPT !.timers = Without(timers, i)], timers[i])

\* a due timer fires, after the due timers of the same delay armed before it
Fire(i) ==
    /\ i \in 1..Len(timers)
    /\ Due(timers[i])
    /\ \A j \in 1..(i - 1) : ~(Due(timers[j]) /\ timers[j].kind = timers[i].kind)
    /\ Commit(Fired(i))
    /\ UNCHANGED sent

\* the setInterval callback of a running room: it only emits
Broadcast(c) ==
    /\ rooms[c] # NoRoom
    /\ rooms[c].tickTimers > 0
    /\ Commit([broadcastState(World, c) EXCEPT !.out = <<>>])
    /\ UNCHANGED sent

\* the instants, relative to now, at which something expires: a pending
\* timer, or the shot cooldown of a player
Expiries ==
    {timers[i].due : i \in 1..Len(timers)} \cup
    UNION {{rooms[c].players[i].lastShotTime + SHOT_COOLDOWN :
                i \in 1..Len(rooms[c].players)} :
           c \in {x \in Codes : rooms[x] # NoRoom}}

NextExpiry == CHOOSE d \in Expiries : d > Now /\ \A e \in Expiries : e > Now => d <= e

Older(time, d) == IF time - d > Epoch THEN time - d ELSE Epoch

\* time passes until the next expiry; no timer is left waiting past its own
Tick ==
    /\ \A i \in 1..Len(timers) : ~Due(timers[i])
    /\ \E d \in Expiries : d > Now
    /\ rooms' = [c \in Codes |->
                   IF rooms[c] = NoRoom THEN NoRoom
                   ELSE [rooms[c] EXCEPT !.players =
                           [i \in 1..Len(rooms[c].players) |->
                              [rooms[c].players[i] EXCEPT
                                  !.lastShotTime = Older(@, NextExpiry)]]]]
    /\ timers' = [i \in 1..Len(timers) |->
                    [timers[i] EXCEPT !.due = @ - NextExpiry]]
    /\ UNCHANGED <<sockets, sent, hitTest>>

\* The duel: every connection is a game-page connection for room AAAA, and
\* the clients send action messages.
Next ==
    \/ \E s \in Sockets, r \in {"AAAA", "aaaa"}, u \in Usernames :
            Connect(s, [room |-> r, username |-> u])
    \/ \E s \in Sockets, d \in UpdateData : Update(s, d)
    \/ \E s \in Sockets, d \in ShootData : Shoot(s, d)
    \/ \E s \in Sockets : Reload(s)
    \/ \E s \in Sockets : Disconnect(s)
    \/ \E i \in 1..Len(timers) : Fire(i)
    \/ \E c \in Codes : Broadcast(c)
    \/ Tick

Spec == Init /\ [][Next]_vars

\* The lobby: connections of either kind, rooms created and joined by code.
NextLobby ==
    \/ \E s \in Sockets, r \in QueryRooms, u \in Usernames \cup {""} :
            Connect(s, [room |-> r, username |-> u])
    \/ \E s \in Sockets, u \in Usernames \cup {""}, c \in Codes : Create(s, u, c)
    \/ \E s \in Sockets, r \in JoinCodes, u \in Usernames \cup {""} : Join(s, r, u)
    \/ \E s \in Sockets : Reload(s)
    \/ \E s \in Sockets : Disconnect(s)
    \/ \E i \in 1..Len(timers) : Fire(i)
    \/ \E c \in Codes : Broadcast(c)
    \/ Tick

SpecLobby == Init /\ [][NextLobby]_vars

\* some timer can fire: of the due timers of a kind the first can
FireEnabled == \E i \in 1..Len(timers) : Due(timers[i])

\* The duel under the scheduling of the event loop: time passes, and a timer
\* that is due fires.  The second conjunct is weak fairness of Fire, written
\* out with FireEnabled for the enabling condition of the action.
Fairness ==
    /\ WF_vars(Tick)
    /\ ([]<>(~FireEnabled) \/ []<><<\E i \in 1..Len(timers) : Fire(i)>>_vars)

FairSpec == Spec /\ Fairness

\* The lobby under the same scheduling.
FairLobby == SpecLobby /\ Fairness

\* The magazine: two players of room AAAA shoot past each other and reload,
\* for as many messages as empty a magazine and more.
MagazineData == {[origin |-> NoValue, direction |-> Vec(0, 0, -1)]}

Volley(s, data) == Message(s, ShootMsg(data), MaxVolley)

Refill(s) == Message(s, ReloadMsg, MaxVolley)

NextMagazine ==
    \/ \E s \in Sockets, u \in Usernames : Connect(s, [room |-> "AAAA", username |-> u])
    \/ \E s \in Sockets, d \in MagazineData : Volley(s, d)
    \/ \E s \in Sockets : Refill(s)
    \/ \E i \in 1..Len(timers) : Fire(i)
    \/ \E c \in Codes : Broadcast(c)
    \/ Tick

SpecMagazine == Init /\ [][NextMagazine]_vars

-----------------------------------------------------------------------------
(* Properties *)

\* The return: connections reach room AAAA from the game page or, through
\* room:join, from the lobby, where a connection that is in the room already
\* can ask again; they shoot and leave.
MaxRejoin == 4

Rejoin(s, username) ==
    /\ sockets[s].status = "lobby"
    /\ sent < MaxRejoin
    /\ Commit(onRoomJoin(World, s, "AAAA", username))
    /\ sent' = sent + 1

Snipe(s, data) == Message(s, ShootMsg(data), MaxRejoin)

Leave(s) ==
    /\ Open(s)
    /\ sent < MaxRejoin
    /\ Commit([Received(s, DisconnectMsg) EXCEPT
                  !.sockets[s] = [status |-> "closed", handlers |-> <<>>]])
    /\ sent' = sent + 1

NextRejoin ==
    \/ \E s \in Sockets, r \in {"", "AAAA"}, u \in Usernames :
            Connect(s, [room |-> r, username |-> u])
    \/ \E s \in Sockets, u \in Usernames : Rejoin(s, u)
    \/ \E s \in Sockets, d \in ShootData : Snipe(s, d)
    \/ \E s \in Sockets : Leave(s)
    \/ \E i \in 1..Len(timers) : Fire(i)
    \/ \E c \in Codes : Broadcast(c)
    \/ Tick

SpecRejoin == Init /\ [][NextRejoin]_vars

\* The second request: lobby connections create room AAAA and join it by
\* code, also when they are in it already, and shoot and reload.
MaxReturn == 6

JoinAgain(s, username) ==
    /\ sockets[s].status = "lobby"
    /\ sent < MaxReturn
    /\ Commit(onRoomJoin(World, s, "AAAA", username))
    /\ sent' = sent + 1

ShootAgain(s, data) == Message(s, ShootMsg(data), MaxReturn)

ReloadAgain(s) == Message(s, ReloadMsg, MaxReturn)

NextReturn ==
    \/ \E s \in Sockets, u \in Usernames : Connect(s, [room |-> "", username |-> u])
    \/ \E s \in Sockets, u \in Usernames : Create(s, u, "AAAA")
    \/ \E s \in Sockets, u \in Usernames : JoinAgain(s, u)
    \/ \E s \in Sockets, d \in MagazineData : ShootAgain(s, d)
    \/ \E s \in Sockets : ReloadAgain(s)
    \/ \E i \in 1..Len(timers) : Fire(i)
    \/ \E c \in Codes : Broadcast(c)
    \/ Tick

SpecReturn == Init /\ [][NextReturn]_vars

\* The hit test on its own: checkHit is called once on a ray and a target
\* position drawn from the sets below, with the server's PLAYER_HEIGHT and
\* PLAYER_RADIUS.  The directions are unit vectors, as handlePlayerShoot
\* passes them.
Origins ==
    { Vec(0, 100, -1000), Vec(0, 250, -1000), Vec(0, 100, 1000),
      Vec(0, 100, 0), Vec(-600, 100, -800), Vec(0, 700, -800), Vec(30, 100, -1000) }

Aims ==
    { Vec(0, 0, 1), Vec(0, 0, -1), Vec(0, 0, 5), Vec(1, 0, 0), Vec(0, -1, 0),
      Vec(3, 0, 4), Vec(0, -3, 4), Vec(-3, 0, -4) }

Directions == {Normalize(v, Sqrt(SquaredLength(v))) : v \in Aims}

Centers == { Vec(0, 100, 0), Vec(0, 180, 0), Vec(0, 50, 0), Vec(4000, 100, 4000) }

InitHit ==
    /\ rooms = [c \in Codes |-> NoRoom]
    /\ timers = <<>>
    /\ sockets = [s \in Sockets |-> [status |-> "new", handlers |-> <<>>]]
    /\ sent = 0
    /\ hitTest \in [shooterPos : Origins, direction : Directions,
                    targetPos : Centers, result : {NoValue}]

CheckHit ==
    /\ hitTest.result = NoValue
    /\ hitTest' = [hitTest EXCEPT
                      !.result = checkHit(hitTest.shooterPos, hitTest.direction,
                                          hitTest.targetPos,
                                          PLAYER_HEIGHT, PLAYER_RADIUS)]
    /\ UNCHANGED <<rooms, timers, sockets, sent>>

NextHit == CheckHit

SpecHit == InitHit /\ [][NextHit]_vars

\* The hit test on a scaled direction: checkHit is called on a ray and on
\* the same ray with its direction multiplied by a positive scalar, the
\* last of which takes every component of a unit vector below 1e-8.
Scales == { <<2, 1>>, <<1, 2>>, <<3, 1>>, <<1, 400000000>> }

Scaled(direction, k) ==
    [x |-> FMul(direction.x, k),
     y |-> FMul(direction.y, k),
     z |-> FMul(direction.z, k)]

InitScale ==
    /\ rooms = [c \in Codes |-> NoRoom]
    /\ timers = <<>>
    /\ sockets = [s \in Sockets |-> [status |-> "new", handlers |-> <<>>]]
    /\ sent = 0
    /\ hitTest \in [shooterPos : Origins, direction : Directions,
                    targetPos : Centers, result : {NoValue},
                    scale : Scales, scaled : {NoValue}]

CheckScaled ==
    /\ hitTest.scaled = NoValue
    /\ hitTest' = [hitTest EXCEPT
                      !.scaled = checkHit(hitTest.shooterPos,
                                          Scaled(hitTest.direction, hitTest.scale),
                                          hitTest.targetPos,
                                          PLAYER_HEIGHT, PLAYER_RADIUS)]
    /\ UNCHANGED <<rooms, timers, sockets, sent>>

NextScale == CheckHit \/ CheckScaled

SpecScale == InitScale /\ [][NextScale]_vars

\* A listener or a timer callback closes over a room object, and the model
\* names the object by its code.  That is sound when a code never names a
\* second object to a listener or timer of the first: every listener of an
\* open socket belongs to a registered room that holds the socket's player,
\* and a pending cleanup timer belongs to a registered room.
RoomObjectsNamedByCode ==
    /\ \A s \in 1..Len(sockets) : \A i \in 1..Len(sockets[s].handlers) :
          ~Absent(World, sockets[s].handlers[i], s)
    /\ \A i \in 1..Len(timers) :
          /\ timers[i].kind = "cleanup" =>
                (rooms[timers[i].code] # NoRoom /\ timers[i].handle
                 /\ rooms[timers[i].code].cleanupTimer)
          /\ timers[i].kind # "cleanup" =>
                \/ sockets[timers[i].id].status = "closed"
                \/ ~Absent(World, timers[i].code, timers[i].id)

Registered == {c \in Codes : rooms[c] # NoRoom}

\* the rooms whose listeners socket s carries
RoomsOf(s) == {sockets[s].handlers[i] : i \in 1..Len(sockets[s].handlers)}

\* the sockets whose messages reach a player of a registered room
Players ==
    {s \in Sockets : \E c \in RoomsOf(s) : ~Absent(World, c, s)}

\* the room in which socket s plays
RoomOf(s) == CHOOSE c \in RoomsOf(s) : ~Absent(World, c, s)

PlayerOf(s) == MapGet(rooms[RoomOf(s)].players, s)

\* the other players of the room of s
OthersOf(s) == SelectSeq(rooms[RoomOf(s)].players, LAMBDA p : p.id # s)

Types(out) == {out[i].type : i \in 1..Len(out)}

Pending(ts, kind) == SelectSeq(ts, LAMBDA t : t.kind = kind)

\* C1: in every reachable state, a registered room has its tick timer active
\* (the handle set, an interval running) iff it is running iff it holds
\* exactly two players.
C1_TickIffRunningIffFull ==
    \A c \in Registered :
        /\ rooms[c].gameLoopInterval = rooms[c].running
        /\ (rooms[c].tickTimers > 0) = rooms[c].running
        /\ rooms[c].tickTimers <= 1
        /\ rooms[c].running = (Len(rooms[c].players) = 2)

\* a room that runs again with its second pair of players, after one left
C1_Witness ==
    /\ rooms["AAAA"] # NoRoom
    /\ rooms["AAAA"].running
    /\ rooms["AAAA"].tickTimers = 1
    /\ Len(rooms["AAAA"].players) = 2
    /\ \E s \in Sockets : sockets[s].status = "closed"

\* what a player:shoot message of socket s with payload d makes of the state
Shot(s, d) == Received(s, ShootMsg(d))

\* the messages out hold a hit on target that takes its last health
Lethal(out, target) ==
    \E i \in 1..Len(out) :
        /\ out[i].type = "hit:confirmed"
        /\ out[i].data.targetId = target.id
        /\ out[i].data.damage >= target.health

KillsDeaths(ps) == [i \in 1..Len(ps) |-> <<ps[i].id, ps[i].kills, ps[i].deaths>>]

\* C2: a hit whose damage takes the target's health to 0 or below leaves the
\* target with health 0 and dead, with one more death, the shooter with one
\* more kill, and one more respawn timer; a shot processed while the only
\* target is dead changes no health, no kills, no deaths and arms no respawn
\* timer.
C2_LethalHitOnce ==
    \A s \in Players : \A d \in ShootData :
        LET after == Shot(s, d)
            before == rooms[RoomOf(s)].players
            now == after.rooms[RoomOf(s)].players
            others == OthersOf(s)
        IN  /\ \A k \in 1..Len(others) :
                  Lethal(after.out, others[k]) =>
                    /\ MapGet(now, others[k].id)
                         = [others[k] EXCEPT !.health = 0, !.isAlive = FALSE,
                                             !.deaths = @ + 1]
                    /\ MapGet(now, s).kills = MapGet(before, s).kills + 1
                    /\ Len(Pending(after.timers, "respawn"))
                         = Len(Pending(timers, "respawn")) + 1
            /\ (others # <<>> /\ \A k \in 1..Len(others) : ~others[k].isAlive) =>
                    /\ \A k \in 1..Len(others) :
                          MapGet(now, others[k].id).health = others[k].health
                    /\ KillsDeaths(now) = KillsDeaths(before)
                    /\ Pending(after.timers, "respawn") = Pending(timers, "respawn")

\* a player killed once by the second of two body hits, and the killer's
\* next shot already off cooldown while the victim is still dead
C2_Witness ==
    \E s \in Players : \E k \in 1..Len(OthersOf(s)) :
        /\ ~OthersOf(s)[k].isAlive
        /\ OthersOf(s)[k].health = 0
        /\ OthersOf(s)[k].deaths = 1
        /\ PlayerOf(s).kills = 1
        /\ PlayerOf(s).ammo = MAX_AMMO - 2
        /\ PlayerOf(s).isAlive
        /\ ~PlayerOf(s).isReloading
        /\ Now - PlayerOf(s).lastShotTime >= SHOT_COOLDOWN

AmmoOf(W, s) == MapGet(W.rooms[RoomOf(s)].players, s).ammo

\* the shot is accepted: it is answered by a hit or by a miss
Accepted(out) == Types(out) \cap {"hit:confirmed", "shoot:miss"} # {}

\* C3: every shoot request that is accepted takes exactly one round from the
\* shooter, and the ammo of every player of every room is in 0..MAX_AMMO.
C3_AmmoDecrementsInRange ==
    /\ \A c \in Registered : \A i \in 1..Len(rooms[c].players) :
          rooms[c].players[i].ammo \in 0..MAX_AMMO
    /\ \A s \in Players : \A d \in ShootData \cup MagazineData :
          LET after == Shot(s, d)
          IN  /\ Accepted(after.out) => AmmoOf(after, s) = AmmoOf(World, s) - 1
              /\ AmmoOf(after, s) \in 0..MAX_AMMO

\* a player who has shot the magazine empty and whose next request is met
\* by the ammo check
C3_Witness ==
    \E s \in Players :
        /\ PlayerOf(s).ammo = 0
        /\ PlayerOf(s).isAlive
        /\ ~PlayerOf(s).isReloading
        /\ Now - PlayerOf(s).lastShotTime >= SHOT_COOLDOWN

InCooldown(p) == Now - p.lastShotTime < SHOT_COOLDOWN

AmmoHealth(W) ==
    [c \in Registered |->
        [i \in 1..Len(W.rooms[c].players) |->
            <<W.rooms[c].players[i].id, W.rooms[c].players[i].ammo,
              W.rooms[c].players[i].health>>]]

Denied(s, reason) == <<Msg(ToSocket(s), "shoot:denied", reason)>>

NoDirection(d) == d.direction = NoValue \/ SquaredLength(d.direction) = 0

\* the request passes the alive, reloading, cooldown and ammo checks
Admitted(p) ==
    /\ p.isAlive
    /\ ~p.isReloading
    /\ ~InCooldown(p)
    /\ p.ammo > 0

\* C5: a shoot request that passes the reloading, cooldown and ammo checks
\* and carries no direction or one of length zero changes nothing: not the
\* shooter's ammo, not its last shot time, not any other player.
C5_NoDirectionNoChange ==
    \A s \in Players : \A d \in ShootData :
        (Admitted(PlayerOf(s)) /\ NoDirection(d)) => Shot(s, d).rooms = rooms

\* C6: in every reachable state every player of every room has its health in
\* 0..MAX_HEALTH, and its health is above 0 exactly when it is alive.
C6_HealthRangeIffAlive ==
    \A c \in Registered : \A i \in 1..Len(rooms[c].players) :
        /\ rooms[c].players[i].health \in 0..MAX_HEALTH
        /\ (rooms[c].players[i].health > 0) = rooms[c].players[i].isAlive

\* a room with a dead player at health 0 beside one wounded by a body hit
C6_Witness ==
    \E c \in Registered : \E i, j \in 1..Len(rooms[c].players) :
        /\ rooms[c].players[i].health = 0
        /\ ~rooms[c].players[i].isAlive
        /\ rooms[c].players[j].health = MAX_HEALTH - BODY_DAMAGE
        /\ rooms[c].players[j].isAlive

\* the pending respawn timers whose player is still in its room
Respawns ==
    {i \in 1..Len(timers) :
        timers[i].kind = "respawn" /\ ~Absent(World, timers[i].code, timers[i].id)}

\* the player of timer i before the timer fires, and after
Awaited(i) == MapGet(rooms[timers[i].code].players, timers[i].id)
Revived(i) == MapGet(Fired(i).rooms[timers[i].code].players, timers[i].id)

\* C7: when the respawn timer of a player still in its room fires, the
\* player has full health and full ammo, is alive, is not reloading and has
\* no cooldown left; its kills, deaths, id and name are as before, and so
\* are every other player and every other room.
C7_RespawnResets ==
    \A i \in Respawns :
        LET before == Awaited(i)
            after == Fired(i)
            revived == MapGet(after.rooms[timers[i].code].players, timers[i].id)
        IN  /\ revived.health = MAX_HEALTH
            /\ revived.ammo = MAX_AMMO
            /\ revived.isAlive
            /\ ~revived.isReloading
            /\ ~InCooldown(revived)
            /\ revived.kills = before.kills
            /\ revived.deaths = before.deaths
            /\ revived.id = before.id
            /\ revived.username = before.username
            /\ revived.rotation = before.rotation
            /\ after.rooms =
                  [rooms EXCEPT ![timers[i].code].players = MapSet(@, revived)]

\* the respawn timer is due for a player who died once with rounds spent,
\* beside another player
C7_Witness ==
    \E i \in Respawns :
        /\ Due(timers[i])
        /\ ~Awaited(i).isAlive
        /\ Awaited(i).ammo < MAX_AMMO
        /\ Awaited(i).deaths = 1
        /\ Len(rooms[timers[i].code].players) = 2

\* the players of the room of timer i other than its own
Rivals(i) ==
    SelectSeq(rooms[timers[i].code].players, LAMBDA p : p.id # timers[i].id)

\* spawn point k is at the greatest squared distance from pos, and the
\* first of the pool at that distance
FirstFarthest(k, pos) ==
    /\ \A j \in 1..Len(SPAWN_POINTS) :
          SquaredDistance(SPAWN_POINTS[j], pos) <= SquaredDistance(SPAWN_POINTS[k], pos)
    /\ \A j \in 1..(k - 1) :
          SquaredDistance(SPAWN_POINTS[j], pos) < SquaredDistance(SPAWN_POINTS[k], pos)

\* C8: the respawn places the player on the pool's point at the greatest
\* squared distance from the other player's position, the earliest of the
\* pool among equals, and on the first point of the pool when the room has
\* no other player.
C8_SpawnFarthestFirst ==
    \A i \in Respawns :
        LET position == Revived(i).position
            rivals == Rivals(i)
        IN  IF rivals = <<>>
            THEN position = SPAWN_POINTS[1]
            ELSE \A r \in 1..Len(rivals) :
                    \E k \in 1..Len(SPAWN_POINTS) :
                        /\ position = SPAWN_POINTS[k]
                        /\ FirstFarthest(k, rivals[r].position)

\* the respawn timer is due while the other player stands where two points
\* of the pool are equally far and farthest
C8_Witness ==
    \E i \in Respawns :
        /\ Due(timers[i])
        /\ Len(Rivals(i)) = 1
        /\ \E j, k \in 1..Len(SPAWN_POINTS) :
              /\ j < k
              /\ FirstFarthest(j, Rivals(i)[1].position)
              /\ SquaredDistance(SPAWN_POINTS[k], Rivals(i)[1].position)
                    = SquaredDistance(SPAWN_POINTS[j], Rivals(i)[1].position)

\* what a player:reload message of socket s makes of the state
Reloading(s) == Received(s, ReloadMsg)

\* C9: a reload request of a player with a full magazine, or already
\* reloading, or dead, emits nothing, arms no timer and changes no state.
C9_ReloadNoOp ==
    \A s \in Players :
        (PlayerOf(s).ammo = MAX_AMMO \/ PlayerOf(s).isReloading \/ ~PlayerOf(s).isAlive)
            => Reloading(s) = World

\* a room with a player in the middle of a reload and a dead player short
\* of rounds
C9_Witness ==
    \E s, t \in Players :
        /\ PlayerOf(s).isReloading
        /\ PlayerOf(s).isAlive
        /\ PlayerOf(s).ammo < MAX_AMMO
        /\ ~PlayerOf(t).isAlive
        /\ PlayerOf(t).ammo < MAX_AMMO
        /\ ~PlayerOf(t).isReloading

\* the room registered under code c holds no player
Empty(c) == rooms[c] # NoRoom /\ Len(rooms[c].players) = 0

\* C10: a registered room that holds no player has its tick loop stopped,
\* and unless a player joins it first it is removed from the registry: when
\* timers that are due fire, a room does not stay empty for ever.
C10_EmptyRoomRemoved ==
    \A c \in Codes :
        /\ [](Empty(c) => (rooms[c].tickTimers = 0 /\ ~rooms[c].running))
        /\ (Empty(c) ~> (rooms[c] = NoRoom \/ Len(rooms[c].players) > 0))

\* the registry has dropped room AAAA after its players were gone: every
\* connection made was for that room, one has closed, and no timer is left
C10_Witness ==
    /\ rooms["AAAA"] = NoRoom
    /\ \E s \in Sockets : sockets[s].status = "closed"
    /\ \A s \in Sockets : sockets[s].status # "game"
    /\ Pending(timers, "cleanup") = <<>>

\* the connection io.on('connection') would hand over next
NextSocket(s) ==
    /\ sockets[s].status = "new"
    /\ \A r \in Sockets : r < s => sockets[r].status # "new"

\* the query strings that take a connection to the game page
GameQueries ==
    {q \in [room : QueryRooms, username : Usernames] :
        q.room # "" /\ q.room # "default"}

\* C11: a game-page connection for a code with no live room never fails: it
\* registers a new room under the (upper-cased) code whose only player is a
\* fresh Player of the requester, answers room:joined and no room:error, and
\* leaves every other registered room as it was
C11_RecreateOnDemand ==
    \A s \in Sockets, q \in GameQueries :
        (NextSocket(s) /\ rooms[toUpperCase(q.room)] = NoRoom) =>
            LET code == toUpperCase(q.room)
                W == handleConnection(World, s, q)
            IN  /\ W.rooms[code] =
                        [GameRoom EXCEPT !.players = <<Player(s, q.username)>>]
                /\ \A c \in Codes \ {code} : W.rooms[c] = rooms[c]
                /\ W.sockets[s].handlers = <<code>>
                /\ "room:joined" \in Types(W.out)
                /\ "room:error" \notin Types(W.out)

\* room AAAA was registered by a game-page connection alone while room BBBB,
\* made in the lobby, is still registered with its player
C11_Witness ==
    /\ rooms["AAAA"] # NoRoom
    /\ Len(rooms["AAAA"].players) = 1
    /\ sockets[rooms["AAAA"].players[1].id].status = "game"
    /\ rooms["AAAA"].players[1] = Player(rooms["AAAA"].players[1].id, "ann")
    /\ rooms["BBBB"] # NoRoom
    /\ Len(rooms["BBBB"].players) = 1
    /\ sockets[rooms["BBBB"].players[1].id].status = "lobby"

CleanupPending(ts, c) == \E i \in 1..Len(ts) : IsCleanup(ts[i], c)

Occupied(r) == r # NoRoom /\ r.players # <<>>

\* C12: no step removes a room that holds a player from the registry, and a
\* step that puts a player into an empty registered room leaves no cleanup
\* timer of that room pending (so no later expiry can act on it); hence a
\* room that holds a player never has a cleanup timer pending
C12_OccupiedRoomStays ==
    [][\A c \in Codes :
          /\ (Occupied(rooms[c]) => rooms'[c] # NoRoom)
          /\ (Empty(c) /\ Occupied(rooms'[c]) =>
                  /\ CleanupPending(timers, c)
                  /\ ~rooms'[c].cleanupTimer)
          /\ (Occupied(rooms'[c]) => ~CleanupPending(timers', c))]_vars

\* socket 3 is alone in room AAAA, as constructed (it never was in a started
\* game), both earlier players have left, and the respawn timer of one of
\* them is still pending: the room was empty less than RESPAWN_TIME ago, so
\* it was joined before its cleanup timer could fire
C12_Witness ==
    /\ rooms["AAAA"] # NoRoom
    /\ rooms["AAAA"].players = <<Player(3, "ann")>>
    /\ sockets[1].status = "closed"
    /\ sockets[2].status = "closed"
    /\ Pending(timers, "respawn") # <<>>
    /\ ~CleanupPending(timers, "AAAA")

Full(c) == rooms[c] # NoRoom /\ Len(rooms[c].players) >= 2

\* the handlers' answer is this one error, sent to the requester alone, and
\* they leave rooms and timers as they are
Refused(W, s, message) ==
    /\ W.out = <<Msg(ToSocket(s), "room:error", message)>>
    /\ W.rooms = rooms
    /\ W.timers = timers

\* C13: no room ever holds more than 2 players; a game-page connection or a
\* room:join for a room that holds 2 players is answered with the error
\* "Room is full" to the requester and changes no room and no timer; a
\* room:join whose code names no registered room is answered with "Room not
\* found" and changes no room and no timer
C13_AtMostTwoPlayers ==
    /\ \A c \in Codes : rooms[c] # NoRoom => Len(rooms[c].players) <= 2
    /\ \A s \in Sockets, q \in GameQueries :
          (NextSocket(s) /\ Full(toUpperCase(q.room))) =>
              Refused(handleConnection(World, s, q), s, "Room is full")
    /\ \A s \in Sockets, r \in JoinCodes \ {""}, u \in Usernames :
          sockets[s].status = "lobby" =>
              LET code == toUpperCase(r)
                  W == onRoomJoin(World, s, r, u)
              IN  /\ (code \in Codes /\ Full(code)) =>
                          Refused(W, s, "Room is full")
                  /\ (code \notin Codes \/ rooms[code] = NoRoom) =>
                          Refused(W, s, "Room not found")

\* room AAAA holds two players and runs, a lobby connection is open (whose
\* room:join for AAAA, aaaa and BBBB or ZZZZ is refused), and a game-page
\* connection has been turned away: it is in no room
C13_Witness ==
    /\ Full("AAAA")
    /\ rooms["AAAA"].running
    /\ rooms["BBBB"] = NoRoom
    /\ \E s \in Sockets : sockets[s].status = "lobby"
    /\ \E s \in Sockets : sockets[s].status = "game" /\ sockets[s].handlers = <<>>

DenialTo(out, s) ==
    /\ Len(out) = 1
    /\ out[1].to = ToSocket(s)
    /\ out[1].type \in {"shoot:denied", "reload:denied"}

\* C15: every shoot request of a player who is dead, reloading, within the
\* cooldown or out of ammo, and every reload request of a player who is dead
\* or already reloading, is answered with one typed denial to the acting
\* socket and with no message to anyone else
C15_RejectionDenied ==
    \A s \in Players :
        /\ ~Admitted(PlayerOf(s)) =>
              \A d \in ShootData : DenialTo(Shot(s, d).out, s)
        /\ (~PlayerOf(s).isAlive \/ PlayerOf(s).isReloading) =>
              DenialTo(Reloading(s).out, s)

\* the pending timers armed for a player whose connection has closed
Orphans ==
    {i \in 1..Len(timers) :
        /\ timers[i].kind \in {"reload", "respawn"}
        /\ sockets[timers[i].id].status = "closed"}

\* C16: when the reload or respawn timer of a player whose connection has
\* closed fires, no room and no player changes (the players who joined after
\* the departure included), no timer is armed and nothing is emitted
C16_OrphanTimerNoEffect ==
    \A i \in Orphans :
        LET W == Fired(i)
        IN  /\ W.rooms = rooms
            /\ W.out = <<>>
            /\ W.timers = Without(timers, i)
            /\ W.sockets = sockets

\* the timer of player 1, who has left, is due while room AAAA holds player
\* 2 and player 3, who joined after the departure
C16_Witness ==
    /\ \E i \in Orphans : timers[i].id = 1 /\ Due(timers[i])
    /\ rooms["AAAA"] # NoRoom
    /\ Len(rooms["AAAA"].players) = 2
    /\ MapHas(rooms["AAAA"].players, 2)
    /\ MapHas(rooms["AAAA"].players, 3)

RespawnsFor(c, id) ==
    Len(SelectSeq(timers, LAMBDA t : t.kind = "respawn" /\ t.code = c /\ t.id = id))

\* C17: in every reachable state a player present in a registered room is
\* dead iff exactly one respawn timer is pending for it, and a living player
\* has none
C17_DeadIffOneRespawnPending ==
    \A c \in Registered : \A i \in 1..Len(rooms[c].players) :
        LET p == rooms[c].players[i]
        IN  /\ ~p.isAlive => RespawnsFor(c, p.id) = 1
            /\ p.isAlive => RespawnsFor(c, p.id) = 0

\* checkHit has been called on this ray and this target position
Tested(shooterPos, aim, targetPos) ==
    /\ hitTest # NoValue
    /\ hitTest.result # NoValue
    /\ hitTest.shooterPos = shooterPos
    /\ hitTest.direction = Normalize(aim, Sqrt(SquaredLength(aim)))
    /\ hitTest.targetPos = targetPos

\* C18: checkHit with ray origin (0,1,-10), direction (0,0,1) and target
\* centre (0,1,0), the box having half-extents (0.4,0.9,0.4), returns a hit
\* that is not a headshot (at distance 9.6, the near face of the box)
C18_BodyHit ==
    Tested(Vec(0, 100, -1000), Vec(0, 0, 1), Vec(0, 100, 0)) =>
        /\ hitTest.result.hit
        /\ ~hitTest.result.headshot
        /\ hitTest.result.distance = Fin(<<960, 1>>)

C18_Witness == Tested(Vec(0, 100, -1000), Vec(0, 0, 1), Vec(0, 100, 0))

\* C19 as stated: with the same ray and target centre (0,1.8,0) checkHit
\* returns a hit that is a headshot
C19_HeadshotAtCentreHeight ==
    Tested(Vec(0, 100, -1000), Vec(0, 0, 1), Vec(0, 180, 0)) =>
        /\ hitTest.result.hit
        /\ hitTest.result.headshot

\* C19: with ray origin (0,1,-10), direction (0,0,1) and target centre
\* (0,1.8,0) checkHit returns a hit that is not a headshot: the box spans
\* heights 0.9 to 2.7, the hit point is at height 1, below the threshold
\* 2.7 - 0.54 = 2.16.  The same ray sent from height 2.5 gives a headshot.
C19_LowHitNoHeadshot ==
    /\ Tested(Vec(0, 100, -1000), Vec(0, 0, 1), Vec(0, 180, 0)) =>
          /\ hitTest.result.hit
          /\ ~hitTest.result.headshot
    /\ Tested(Vec(0, 250, -1000), Vec(0, 0, 1), Vec(0, 180, 0)) =>
          /\ hitTest.result.hit
          /\ hitTest.result.headshot

C19_Witness == Tested(Vec(0, 100, -1000), Vec(0, 0, 1), Vec(0, 180, 0))

\* the eight corners of the box around targetPos
Corners(targetPos, height, radius) ==
    { Vec(targetPos.x + dx, targetPos.y + dy, targetPos.z + dz) :
        dx \in {0 - radius, radius},
        dy \in {0 - (height \div 2), height \div 2},
        dz \in {0 - radius, radius} }

\* (point - origin) . direction
Along(point, origin, direction) ==
    FAdd(FAdd(FMul(FromInt(point.x - origin.x), direction.x),
              FMul(FromInt(point.y - origin.y), direction.y)),
         FMul(FromInt(point.z - origin.z), direction.z))

\* every point of the box is behind the ray's origin along its direction
Behind(origin, direction, targetPos) ==
    \A corner \in Corners(targetPos, PLAYER_HEIGHT, PLAYER_RADIUS) :
        FLt(Along(corner, origin, direction), <<0, 1>>)

\* C20: checkHit reports no hit whenever the box lies entirely behind the
\* ray's origin along its direction, as for origin (0,1,-10), direction
\* (0,0,-1) and target centre (0,1,0), where the slabs narrow to tMax < 0
C20_BehindIsMiss ==
    /\ (hitTest # NoValue /\ hitTest.result # NoValue
            /\ Behind(hitTest.shooterPos, hitTest.direction, hitTest.targetPos))
          => ~hitTest.result.hit
    /\ Tested(Vec(0, 100, -1000), Vec(0, 0, -1), Vec(0, 100, 0)) =>
          /\ Behind(hitTest.shooterPos, hitTest.direction, hitTest.targetPos)
          /\ hitTest.result = Miss

C20_Witness == Tested(Vec(0, 100, -1000), Vec(0, 0, -1), Vec(0, 100, 0))

\* checkHit has been called on the ray and on the ray of scaled direction
Compared ==
    /\ hitTest # NoValue
    /\ hitTest.result # NoValue
    /\ hitTest.scaled # NoValue

\* distance b is distance a divided by k
DividedBy(a, k, b) ==
    IF a.inf # 0 \/ b.inf # 0 THEN a.inf = b.inf
    ELSE FMul(b.v, k)[1] * a.v[2] = a.v[1] * FMul(b.v, k)[2]

SameVerdict(a, k, b) ==
    /\ a.hit = b.hit
    /\ a.headshot = b.headshot
    /\ a.hit => DividedBy(a.distance, k, b.distance)

\* no component of the direction is both non-zero and below 1e-8
AboveEpsilon(direction) ==
    \A f \in {direction.x, direction.y, direction.z} :
        f[1] = 0 \/ ~FLt(FAbs(f), Epsilon)

\* C21 as stated: for every positive scalar k, checkHit on k*d returns the
\* hit and headshot verdict of checkHit on d, and on a hit the distance
\* divided by k
C21_AnyScaleSameVerdict ==
    Compared => SameVerdict(hitTest.result, hitTest.scale, hitTest.scaled)

\* C21: for every positive scalar k that leaves each non-zero component of
\* k*d at 1e-8 or more, checkHit on k*d returns the hit and headshot verdict
\* of checkHit on the unit vector d, and on a hit the distance divided by k
C21_ScaleSameVerdict ==
    (Compared /\ AboveEpsilon(Scaled(hitTest.direction, hitTest.scale))) =>
        SameVerdict(hitTest.result, hitTest.scale, hitTest.scaled)

\* the ray from (0,1,-10) along (0,0,1) at the box around (0,1,0), and the
\* same ray with direction (0,0,1/2): both calls made, both hits
C21_Witness ==
    /\ Compared
    /\ hitTest.shooterPos = Vec(0, 100, -1000)
    /\ hitTest.direction = Normalize(Vec(0, 0, 1), 1)
    /\ hitTest.targetPos = Vec(0, 100, 0)
    /\ hitTest.scale = <<1, 2>>
    /\ hitTest.result.hit
    /\ hitTest.scaled.distance = Fin(<<1920, 1>>)

\* C22: removeRoom for a code the registry does not hold changes nothing, and
\* removeRoom called twice for a registered code leaves what one call
\* leaves: the room's loop stopped, the code free, all else as it was
C22_RemoveRoomIdempotent ==
    \A c \in Codes :
        LET once == removeRoom(World, c)
        IN  /\ rooms[c] = NoRoom => once = World
            /\ removeRoom(once, c) = once
            /\ once.rooms[c] = NoRoom
            /\ \A d \in Codes \ {c} : once.rooms[d] = rooms[d]
            /\ once.sockets = sockets

\* room AAAA, which the first connection had made, has been removed, and a
\* connection is still to come
C22_Witness ==
    /\ rooms["AAAA"] = NoRoom
    /\ sockets[1].status = "closed"
    /\ sockets[MaxSockets].status = "new"

\* the players of room r whose connection is open after the step
Staying(r) == {r.players[i].id : i \in {k \in 1..Len(r.players) :
                                        sockets'[r.players[k].id].status # "closed"}}

\* C23: room:create registers its new room under a code the registry does
\* not hold at that moment and leaves every other code's room as it is; no
\* step puts another room in the place of a registered one (a room that
\* stays registered keeps its players whose connections stay open), and a
\* listener registered for a room finds it under the room's own code
C23_CreateNeverReplaces ==
    [][/\ \A s \in Sockets, u \in Usernames, c \in generateRoomCode(World) :
              sockets[s].status = "lobby" =>
                  /\ rooms[c] = NoRoom
                  /\ \A d \in Codes \ {c} :
                        onRoomCreate(World, s, u, c).rooms[d] = rooms[d]
                  /\ onRoomCreate(World, s, u, c).rooms[c] =
                        [GameRoom EXCEPT !.players = <<Player(s, u)>>]
       /\ \A c \in Codes :
              (rooms[c] # NoRoom /\ rooms'[c] # NoRoom) =>
                  \A id \in Staying(rooms[c]) : MapHas(rooms'[c].players, id)
       /\ \A s \in Sockets : \A i \in 1..Len(sockets'[s].handlers) :
              /\ rooms'[sockets'[s].handlers[i]] # NoRoom
              /\ MapHas(rooms'[sockets'[s].handlers[i]].players, s)]_vars

\* two requests were made, both room:create: each lobby connection is alone
\* in the room it made, the second one's code avoiding the first's
C23_Witness ==
    /\ sent = 2
    /\ rooms["AAAA"] # NoRoom
    /\ rooms["BBBB"] # NoRoom
    /\ Len(rooms["AAAA"].players) = 1
    /\ Len(rooms["BBBB"].players) = 1
    /\ sockets[1].status = "lobby" /\ Len(sockets[1].handlers) = 1
    /\ sockets[2].status = "lobby" /\ Len(sockets[2].handlers) = 1
    /\ sockets[1].handlers # sockets[2].handlers

\* the reason of the first check of handlePlayerShoot that player p fails
FirstFailing(p) ==
    IF p.isReloading THEN "reloading"
    ELSE IF InCooldown(p) THEN "cooldown"
    ELSE "no_ammo"

\* the request was denied: one shoot:denied with the reason to the shooter,
\* and rooms, timers and sockets as before
DeniedUnchanged(W, s, reason) ==
    /\ W.out = Denied(s, reason)
    /\ W.rooms = rooms
    /\ W.timers = timers
    /\ W.sockets = sockets

\* C24: a living player's shoot request is accepted (it takes a round and
\* stamps the shot time, and is not denied) iff the player is not reloading,
\* the cooldown has elapsed and ammo > 0; otherwise it is denied with the
\* reason of the first failing check in the order reloading, cooldown,
\* no-ammo, and nothing changes
C24_AcceptedIffChecksPass ==
    \A s \in Players : \A d \in ShootData \cup MagazineData :
        PlayerOf(s).isAlive =>
            LET p == PlayerOf(s)
                W == Shot(s, d)
                q == MapGet(W.rooms[RoomOf(s)].players, s)
            IN  IF Admitted(p)
                THEN /\ "shoot:denied" \notin Types(W.out)
                     /\ q.ammo = p.ammo - 1
                     /\ q.lastShotTime = Now
                ELSE DeniedUnchanged(W, s, FirstFailing(p))

\* a player who has just shot the last round: within the cooldown and out
\* of ammo, so that the order of the checks decides the reason
C24_Witness ==
    \E s \in Players :
        /\ PlayerOf(s).isAlive
        /\ ~PlayerOf(s).isReloading
        /\ InCooldown(PlayerOf(s))
        /\ PlayerOf(s).ammo = 0

\* player:update payloads, those with one of the two fields included
Moves ==
    UpdateData \cup { [position |-> Aside, rotation |-> NoValue],
                      [position |-> NoValue, rotation |-> Turned] }

\* W differs from the present state at most in player q of room c
OnlyPlayer(W, c, q) ==
    /\ W.rooms = [rooms EXCEPT ![c].players = MapSet(@, q)]
    /\ W.timers = timers
    /\ W.sockets = sockets
    /\ W.out = <<>>

\* C25: a player:update of a dead player changes nothing; one of a living
\* player changes nothing but that player's position and rotation, each set
\* to the payload's if the payload carries it and kept otherwise
C25_MoveOnlyMovesTheLiving ==
    \A s \in Players : \A d \in Moves :
        LET p == PlayerOf(s)
            W == Received(s, UpdateMsg(d))
        IN  IF ~p.isAlive THEN W = World
            ELSE OnlyPlayer(W, RoomOf(s),
                    [p EXCEPT
                        !.position = IF d.position = NoValue THEN @ ELSE d.position,
                        !.rotation = IF d.rotation = NoValue THEN @ ELSE d.rotation])

\* a dead player, whose moves are dropped, beside a player who has moved
C25_Witness ==
    \E s, t \in Players :
        /\ ~PlayerOf(s).isAlive
        /\ PlayerOf(s).position # Aside
        /\ PlayerOf(t).isAlive
        /\ PlayerOf(t).position = Aside
        /\ PlayerOf(t).rotation = Turned

\* player s is in a room, with a reload under way
MidReload(s) == s \in Players /\ PlayerOf(s).isReloading

\* player s is in a room with a full magazine and no reload under way
Refilled(s) ==
    /\ s \in Players
    /\ PlayerOf(s).ammo = MAX_AMMO
    /\ ~PlayerOf(s).isReloading

\* the reload request of s is accepted: s is set reloading, the room is told
\* and one reload timer of RELOAD_TIME is armed for s
ReloadStarts(s) ==
    LET W == Reloading(s)
        c == RoomOf(s)
    IN  /\ MapGet(W.rooms[c].players, s) = [PlayerOf(s) EXCEPT !.isReloading = TRUE]
        /\ W.out = <<Msg(ToRoom(c), "player:reloading", s)>>
        /\ W.timers = Append(timers, Timer("reload", c, s, RELOAD_TIME))

\* the reload timer i of a player still in its room fills the magazine, ends
\* the reload and tells the room
ReloadEnds(i) ==
    LET W == Fired(i)
        t == timers[i]
        q == MapGet(W.rooms[t.code].players, t.id)
    IN  /\ q.ammo = MAX_AMMO
        /\ ~q.isReloading
        /\ W.out = <<Msg(ToRoom(t.code), "player:reloaded",
                         [id |-> t.id, ammo |-> MAX_AMMO])>>

Count(out, type) == Len(SelectSeq(out, LAMBDA m : m.type = type))

\* the join that W results from has taken room c from one player to two:
\* game:start was emitted once, with the state of both players, no snapshot
\* was emitted, and the room's one interval was started by it
StartedOnce(W, c) ==
    /\ Len(W.rooms[c].players) = 2
    /\ Count(W.out, "game:start") = 1
    /\ \E i \in 1..Len(W.out) :
          W.out[i] = Msg(ToRoom(c), "game:start", States(W.rooms[c].players))
    /\ Count(W.out, "game:state") = 0
    /\ rooms[c].tickTimers = 0
    /\ W.rooms[c].tickTimers = 1
    /\ W.rooms[c].running

OneWaiting(c, s) ==
    /\ c \in Codes
    /\ rooms[c] # NoRoom
    /\ Len(rooms[c].players) = 1
    /\ ~MapHas(rooms[c].players, s)

\* C27: every join that takes a room to two players (a game-page connection
\* or a room:join, into a room that was never full or that a player has
\* left) emits game:start exactly once, with both players' states, and
\* starts the room's interval exactly once; a room has an interval, and so
\* emits snapshots, only while it holds two players and runs, and never has
\* two intervals
C27_StartOncePerPair ==
    /\ \A c \in Registered :
          /\ rooms[c].tickTimers <= 1
          /\ rooms[c].tickTimers = 1 =>
                (rooms[c].running /\ Len(rooms[c].players) = 2)
    /\ \A s \in Sockets, q \in GameQueries :
          (NextSocket(s) /\ OneWaiting(toUpperCase(q.room), s)) =>
              StartedOnce(handleConnection(World, s, q), toUpperCase(q.room))
    /\ \A s \in Sockets, r \in JoinCodes, u \in Usernames :
          (sockets[s].status = "lobby" /\ OneWaiting(toUpperCase(r), s)) =>
              StartedOnce(onRoomJoin(World, s, r, u), toUpperCase(r))

\* room AAAA runs with two players, one of them in the lobby's way, after a
\* connection has closed
C27_Witness ==
    /\ rooms["AAAA"] # NoRoom
    /\ rooms["AAAA"].running
    /\ rooms["AAAA"].tickTimers = 1
    /\ Len(rooms["AAAA"].players) = 2
    /\ \E s \in Sockets : sockets[s].status = "closed"
    /\ \E s \in Sockets : sockets[s].status = "lobby" /\ sockets[s].handlers = <<"AAAA">>

\* C28: when a player of a running room of two disconnects, the same step
\* stops the room's interval, clears running and emits game:over (reason
\* opponent_left) to the room, in which only the other player remains; a
\* room that does not hold two players has no interval, so it emits no
\* snapshot until it holds two again
C28_InterruptedWhenOneLeft ==
    /\ \A c \in Registered : Len(rooms[c].players) # 2 => rooms[c].tickTimers = 0
    /\ \A s \in Players : \A c \in RoomsOf(s) :
          (rooms[c].running /\ Len(rooms[c].players) = 2) =>
              LET W == Received(s, DisconnectMsg)
                  p == MapGet(rooms[c].players, s)
              IN  /\ W.rooms[c].players = MapDelete(rooms[c].players, s)
                  /\ W.rooms[c].tickTimers = 0
                  /\ ~W.rooms[c].gameLoopInterval
                  /\ ~W.rooms[c].running
                  /\ SelectSeq(W.out, LAMBDA m : m.to.code = c) =
                        <<Msg(ToRoom(c), "player:disconnected", p.username),
                          Msg(ToRoom(c), "game:over", "opponent_left")>>
                  /\ ~CleanupPending(W.timers, c)

\* one player is left in room AAAA, standing where the start of the game
\* had put it; the other has gone and the room does not run
C28_Witness ==
    /\ rooms["AAAA"] # NoRoom
    /\ Len(rooms["AAAA"].players) = 1
    /\ rooms["AAAA"].players[1].position \in {SPAWN_POINTS[1], SPAWN_POINTS[2]}
    /\ ~rooms["AAAA"].running
    /\ rooms["AAAA"].tickTimers = 0
    /\ \E s \in Sockets : sockets[s].status = "closed"


Vital(p) == [health |-> p.health, ammo |-> p.ammo, isAlive |-> p.isAlive,
             kills |-> p.kills, deaths |-> p.deaths]

\* W results from a request of socket s to join room c as username: if it
\* was answered with room:joined, the player of s is a new Player but for
\* the position that a start has given it, and every other player of the
\* room is still there with its health, ammo, isAlive, kills and deaths
JoinedFresh(W, c, s, username) ==
    (\E i \in 1..Len(W.out) : W.out[i] = Msg(ToSocket(s), "room:joined", c)) =>
        /\ W.rooms[c] # NoRoom
        /\ MapHas(W.rooms[c].players, s)
        /\ [MapGet(W.rooms[c].players, s) EXCEPT !.position = Vec(0, 100, 0)]
              = Player(s, username)
        /\ rooms[c] # NoRoom =>
              \A i \in 1..Len(rooms[c].players) :
                  rooms[c].players[i].id # s =>
                      /\ MapHas(W.rooms[c].players, rooms[c].players[i].id)
                      /\ Vital(MapGet(W.rooms[c].players, rooms[c].players[i].id))
                            = Vital(rooms[c].players[i])

\* C29: every accepted join (a game-page connection, a room:join, a
\* room:create; into an empty room, next to a waiting player, or into the
\* place of one who left) adds a player with health MAX_HEALTH, ammo
\* MAX_AMMO, alive, not reloading, 0 kills and 0 deaths, and leaves the
\* health, ammo, isAlive, kills and deaths of the other player as they were
C29_JoinStartsFresh ==
    /\ \A s \in Sockets, q \in GameQueries :
          NextSocket(s) =>
              JoinedFresh(handleConnection(World, s, q), toUpperCase(q.room),
                          s, q.username)
    /\ \A s \in Sockets, r \in JoinCodes, u \in Usernames :
          sockets[s].status = "lobby" =>
              JoinedFresh(onRoomJoin(World, s, r, u), toUpperCase(r), s, u)
    /\ \A s \in Sockets, c \in Codes \ Registered, u \in Usernames :
          sockets[s].status = "lobby" =>
              JoinedFresh(onRoomCreate(World, s, u, c), c, s, u)

\* room AAAA runs with a player who has a kill and a player who has taken the
\* place of one who left: the newcomer is unhurt and was never killed
C29_Witness ==
    /\ rooms["AAAA"] # NoRoom
    /\ rooms["AAAA"].running
    /\ Len(rooms["AAAA"].players) = 2
    /\ \E s \in Sockets : sockets[s].status = "closed"
    /\ \E i, j \in 1..2 :
          /\ rooms["AAAA"].players[i].kills >= 1
          /\ rooms["AAAA"].players[i].ammo < MAX_AMMO
          /\ Vital(rooms["AAAA"].players[j]) = Vital(Player(0, ""))


\* the closest living player on the ray of payload d shot by player p of
\* room c, or NoValue
Struck(c, p, d) ==
    ClosestHit(rooms[c].players, 1, p.id,
               IF d.origin # NoValue THEN d.origin ELSE p.position,
               Normalize(d.direction, Sqrt(SquaredLength(d.direction))),
               NoValue)

\* the state before with one round less and the shot time stamped for
\* player p of room c, and nothing else changed
AfterShot(c, p) ==
    SetPlayer(World, c, [p EXCEPT !.ammo = @ - 1, !.lastShotTime = Now])

\* W holds the rooms of V and the timers and listeners of the state before,
\* every message of W goes to socket s alone, and but for denials (of a
\* second listener of s) the one message is type with data
ShotFrame(W, V, s, type, data) ==
    /\ W.rooms = V.rooms
    /\ W.timers = timers
    /\ W.sockets = sockets
    /\ \A k \in 1..Len(W.out) : W.out[k].to = ToSocket(s)
    /\ SelectSeq(W.out, LAMBDA m : m.type # "shoot:denied")
          = <<Msg(ToSocket(s), type, data)>>

\* C30: an admitted shot with a direction whose ray meets no living player
\* changes only the shooter's ammo and lastShotTime and emits only
\* shoot:miss, to the shooter; one whose closest target has more health than
\* the damage (BODY_DAMAGE, or HEADSHOT_DAMAGE for a headshot) changes
\* besides only that target's health, by the damage, and emits only
\* hit:confirmed {targetId, damage, headshot}, to the shooter; neither
\* changes kills, deaths, timers or listeners
C30_MissAndSurvivedHitFrame ==
    \A s \in Players : \A d \in ShootData \cup MagazineData :
        (PlayerOf(s).isAlive /\ Admitted(PlayerOf(s)) /\ ~NoDirection(d)) =>
            LET c == RoomOf(s)
                p == PlayerOf(s)
                W == Shot(s, d)
                best == Struck(c, p, d)
            IN  IF best = NoValue
                THEN ShotFrame(W, AfterShot(c, p), s, "shoot:miss", NoValue)
                ELSE LET target == MapGet(rooms[c].players, best.target)
                         damage == IF best.result.headshot
                                   THEN HEADSHOT_DAMAGE ELSE BODY_DAMAGE
                     IN  target.health > damage =>
                            ShotFrame(W,
                                SetPlayer(AfterShot(c, p), c,
                                          [target EXCEPT !.health = @ - damage]),
                                s, "hit:confirmed",
                                [targetId |-> target.id, damage |-> damage,
                                 headshot |-> best.result.headshot])

\* a player wounded by a body hit and alive, beside a player who has spent
\* two rounds or more; nobody has a kill and no timer is pending
C30_Witness ==
    /\ timers = <<>>
    /\ \E c \in Registered : \E i, j \in 1..Len(rooms[c].players) :
          /\ rooms[c].players[i].health = MAX_HEALTH - BODY_DAMAGE
          /\ rooms[c].players[i].isAlive
          /\ rooms[c].players[i].deaths = 0
          /\ rooms[c].players[j].ammo <= MAX_AMMO - 2
          /\ rooms[c].players[j].kills = 0
          /\ rooms[c].players[i].kills = 0

\* the pending reload timers of player id of room c
ReloadsFor(c, id) ==
    SelectSeq(timers, LAMBDA t : t.kind = "reload" /\ t.code = c /\ t.id = id)

\* the pending cleanup timers of room c
CleanupsFor(c) == SelectSeq(timers, LAMBDA t : IsCleanup(t, c))

\* C31: in every reachable state every player of a registered room has at
\* most one pending reload timer, and every registered room has at most one
\* pending cleanup timer
C31_OneReloadOneCleanup ==
    \A c \in Registered :
        /\ Len(CleanupsFor(c)) <= 1
        /\ \A i \in 1..Len(rooms[c].players) :
              Len(ReloadsFor(c, rooms[c].players[i].id)) <= 1


\* C32: a due reload timer whose player has left, is dead or is not
\* reloading changes nothing when it fires and emits nothing; one whose
\* player is alive and reloading fills the magazine, clears the flag and
\* emits player:reloaded
C32_ReloadFiresOnlyIfExpected ==
    \A i \in 1..Len(timers) :
        (timers[i].kind = "reload" /\ Due(timers[i])) =>
            LET c == timers[i].code
                id == timers[i].id
                W == Fired(i)
            IN  IF ~Absent(World, c, id)
                   /\ MapGet(rooms[c].players, id).isAlive
                   /\ MapGet(rooms[c].players, id).isReloading
                THEN /\ MapGet(W.rooms[c].players, id) =
                          [MapGet(rooms[c].players, id) EXCEPT
                              !.ammo = MAX_AMMO, !.isReloading = FALSE]
                     /\ W.out = <<Msg(ToRoom(c), "player:reloaded",
                                      [id |-> id, ammo |-> MAX_AMMO])>>
                ELSE /\ W.rooms = rooms
                     /\ W.out = <<>>


FEq(a, b) == a[1] * b[2] = b[1] * a[2]

\* the box around targetPos as <<lo, hi>> on each axis
Box(targetPos) ==
    [x |-> <<targetPos.x - PLAYER_RADIUS, targetPos.x + PLAYER_RADIUS>>,
     y |-> <<targetPos.y - PLAYER_HEIGHT \div 2, targetPos.y + PLAYER_HEIGHT \div 2>>,
     z |-> <<targetPos.z - PLAYER_RADIUS, targetPos.z + PLAYER_RADIUS>>]

Axes == {"x", "y", "z"}

\* origin + t * direction is in the closed box
InBoxAt(origin, direction, box, t) ==
    \A a \in Axes :
        /\ FLe(FromInt(box[a][1]), FAdd(FromInt(origin[a]), FMul(direction[a], t)))
        /\ FLe(FAdd(FromInt(origin[a]), FMul(direction[a], t)), FromInt(box[a][2]))

\* the ray parameters at which the ray crosses a face plane of the box, and
\* 0: if the ray meets the box at some t >= 0, the first and the last such t
\* are among them
Crossings(origin, direction, box) ==
    {<<0, 1>>} \cup
    UNION { {FMul(FromInt(box[a][k] - origin[a]), FInv(direction[a])) : k \in 1..2} :
            a \in {b \in Axes : direction[b][1] # 0} }

\* the parameters t >= 0 among the crossings at which the ray is in the box
Inside(origin, direction, box) ==
    {t \in Crossings(origin, direction, box) :
        FLe(<<0, 1>>, t) /\ InBoxAt(origin, direction, box, t)}

\* the origin is in the closed box, in the open box
OriginInBox(origin, box) ==
    \A a \in Axes : box[a][1] <= origin[a] /\ origin[a] <= box[a][2]
OriginWithin(origin, box) ==
    \A a \in Axes : box[a][1] < origin[a] /\ origin[a] < box[a][2]

HitY(origin, direction, distance) ==
    FAdd(FromInt(origin.y), FMul(direction.y, distance))

\* the top of the box less 30% of the full height, 3/10 of PLAYER_HEIGHT
HeadLine(targetPos) ==
    <<10 * (targetPos.y + PLAYER_HEIGHT \div 2) - 3 * PLAYER_HEIGHT, 10>>

\* C34: whenever checkHit reports a hit, headshot is true iff the height of
\* the hit point, origin.y + direction.y * distance, is at or above the top
\* of the box less 30% of the target's full height
C34_HeadshotIffTopBand ==
    (hitTest # NoValue /\ hitTest.result # NoValue /\ hitTest.result.hit) =>
        hitTest.result.headshot =
            FLe(HeadLine(hitTest.targetPos),
                HitY(hitTest.shooterPos, hitTest.direction, hitTest.result.distance.v))

\* a horizontal ray at height 2.5 has hit the box of centre (0,1.8,0), whose
\* top is at 2.7: a headshot
C34_Witness ==
    /\ Tested(Vec(0, 250, -1000), Vec(0, 0, 1), Vec(0, 180, 0))
    /\ hitTest.result.hit
    /\ hitTest.result.headshot


\* W results from the join of socket s that has taken room c from one
\* player to two: the player who was there is first and stands on entry 0
\* of the pool, the joiner is second and stands on entry 1, and game:start
\* carries these positions
PlacedInJoinOrder(W, c, s) ==
    /\ Len(W.rooms[c].players) = 2
    /\ W.rooms[c].players[1].id = rooms[c].players[1].id
    /\ W.rooms[c].players[2].id = s
    /\ \A i \in 1..2 :
          W.rooms[c].players[i].position = SPAWN_POINTS[((i - 1) % Len(SPAWN_POINTS)) + 1]
    /\ \E k \in 1..Len(W.out) :
          /\ W.out[k].type = "game:start"
          /\ \A i \in 1..2 :
                W.out[k].data[i].position
                    = SPAWN_POINTS[((i - 1) % Len(SPAWN_POINTS)) + 1]

\* C35: every join that starts a game (a game-page connection or a
\* room:join into a room with one player, who may have moved or may be the
\* one left of an earlier pair) leaves the players in the order they joined,
\* the i-th of them on spawn point i mod 4 counted from 0: the earlier one
\* on entry 0, the joiner on entry 1
C35_StartInJoinOrder ==
    /\ \A s \in Sockets, q \in GameQueries :
          (NextSocket(s) /\ OneWaiting(toUpperCase(q.room), s)) =>
              PlacedInJoinOrder(handleConnection(World, s, q), toUpperCase(q.room), s)
    /\ \A s \in Sockets, r \in JoinCodes, u \in Usernames :
          (sockets[s].status = "lobby" /\ OneWaiting(toUpperCase(r), s)) =>
              PlacedInJoinOrder(onRoomJoin(World, s, r, u), toUpperCase(r), s)

\* room AAAA runs with connection 2, which joined first, on entry 0 of the
\* pool and connection 1, which joined after it, on entry 1
C35_Witness ==
    /\ rooms["AAAA"] # NoRoom
    /\ rooms["AAAA"].running
    /\ Len(rooms["AAAA"].players) = 2
    /\ rooms["AAAA"].players[1].id = 2
    /\ rooms["AAAA"].players[2].id = 1
    /\ rooms["AAAA"].players[1].position = SPAWN_POINTS[1]
    /\ rooms["AAAA"].players[2].position = SPAWN_POINTS[2]


\* C36: in every reachable state every registered room either holds at
\* least one player or has its cleanup timer armed (the handle set and the
\* timer pending), so that the empty room is removed when the timer fires
C36_OccupiedOrCleanupArmed ==
    \A c \in Registered :
        \/ Len(rooms[c].players) >= 1
        \/ /\ rooms[c].cleanupTimer
           /\ CleanupPending(timers, c)

\* room AAAA is registered and empty after its players have gone, and room
\* BBBB holds a player
C36_Witness ==
    /\ Empty("AAAA")
    /\ CleanupPending(timers, "AAAA")
    /\ \E s \in Sockets : sockets[s].status = "closed"
    /\ Occupied(rooms["BBBB"])


\* the registered rooms that hold a player of connection s
SessionsOf(s) == {c \in Registered : MapHas(rooms[c].players, s)}

\* C37: in every reachable state a connection is a player of at most one
\* registered room, so that each of its action messages reaches the
\* listeners of one room
C37_OneRoomPerConnection ==
    \A s \in Sockets :
        /\ Cardinality(SessionsOf(s)) <= 1
        /\ Cardinality(RoomsOf(s)) <= 1


\* the connection s closes in W: its disconnect listeners run and it is gone
Closed(W, s) ==
    [Deliver(W, W.sockets[s].handlers, 1, s, DisconnectMsg) EXCEPT
        !.sockets[s] = [status |-> "closed", handlers |-> <<>>]]

\* the handoff of the players a and b of room c: each lobby connection
\* closes ("La", "Lb") and its user opens the game page for c with a new
\* connection ("Ga", "Gb"), the connections after those of the state
HandoffEvents == {"La", "Lb", "Ga", "Gb"}

Interleavings ==
    {o \in [1..4 -> HandoffEvents] : \A e \in HandoffEvents : \E i \in 1..4 : o[i] = e}

HandoffEvent(W, c, a, b, e) ==
    CASE e = "La" -> Closed(W, a)
      [] e = "Lb" -> Closed(W, b)
      [] e = "Ga" -> handleConnection(W, Len(sockets) + 1, [room |-> c, username |-> "ann"])
      [] e = "Gb" -> handleConnection(W, Len(sockets) + 2, [room |-> c, username |-> "ann"])

RECURSIVE Handoff(_, _, _, _, _, _)
Handoff(W, c, a, b, o, i) ==
    IF i > Len(o) THEN W
    ELSE Handoff(HandoffEvent(W, c, a, b, o[i]), c, a, b, o, i + 1)

\* the state with two connections more, not yet opened
BeforeHandoff ==
    [World EXCEPT !.sockets = @ \o << [status |-> "new", handlers |-> <<>>],
                                      [status |-> "new", handlers |-> <<>>] >>]

\* room c runs with the lobby connections a and b, each in no other room
Started2(c, a, b) ==
    /\ rooms[c].running
    /\ Len(rooms[c].players) = 2
    /\ rooms[c].players[1].id = a
    /\ rooms[c].players[2].id = b
    /\ \A s \in {a, b} : sockets[s].status = "lobby" /\ sockets[s].handlers = <<c>>

\* W is the end of a handoff into room c: it runs with its tick loop on and
\* exactly the two game-page connections as players, and neither of them
\* was answered room:error
HandedOver(W, c) ==
    /\ W.rooms[c] # NoRoom
    /\ W.rooms[c].running
    /\ W.rooms[c].tickTimers = 1
    /\ {W.rooms[c].players[i].id : i \in 1..Len(W.rooms[c].players)}
          = {Len(sockets) + 1, Len(sockets) + 2}
    /\ \A k \in 1..Len(W.out) : W.out[k].type # "room:error"

\* C38: from every state in which a room runs with two lobby connections as
\* its players, every order of the four events of the handoff (the two
\* lobby connections close, the two users open the game page for the room)
\* ends with the room running, its tick loop on, the two game-page
\* connections as its players, and neither of them refused
C38_HandoffAnyOrder ==
    \A c \in Registered : \A a, b \in Sockets :
        Started2(c, a, b) =>
            \A o \in Interleavings : HandedOver(Handoff(BeforeHandoff, c, a, b, o, 1), c)


\* C39: in every reachable state a player whose isReloading flag is set has
\* fewer than MAX_AMMO rounds
C39_ReloadingBelowFull ==
    \A c \in Registered : \A i \in 1..Len(rooms[c].players) :
        rooms[c].players[i].isReloading => rooms[c].players[i].ammo < MAX_AMMO

\* a living player reloads an empty magazine while its reload timer is
\* pending
C39_Witness ==
    \E c \in Registered : \E i \in 1..Len(rooms[c].players) :
        /\ rooms[c].players[i].isReloading
        /\ rooms[c].players[i].isAlive
        /\ rooms[c].players[i].ammo = 0
        /\ Len(ReloadsFor(c, rooms[c].players[i].id)) = 1


\* the players p and q of a room have each as many kills as the other has
\* deaths
Balanced(p, q) == p.kills = q.deaths /\ q.kills = p.deaths

\* the ids of the players of room r, in order
Ids(r) == [i \in 1..Len(r.players) |-> r.players[i].id]

\* C40: while no connection has closed, the two players of a room (both
\* there since they joined with kills and deaths 0) have each as many kills
\* as the other has deaths; and whatever went before, a step that leaves
\* the same two players in a room adds to the kills of each what it adds to
\* the deaths of the other
C40_KillsEqualDeaths ==
    /\ [](\A c \in Registered :
            (Len(rooms[c].players) = 2
                /\ \A s \in Sockets : sockets[s].status # "closed") =>
                    Balanced(rooms[c].players[1], rooms[c].players[2]))
    /\ [][\A c \in Registered :
            (rooms'[c] # NoRoom /\ Len(rooms[c].players) = 2
                /\ Ids(rooms'[c]) = Ids(rooms[c])) =>
                    \A i, j \in 1..2 :
                        i # j =>
                            rooms'[c].players[i].kills - rooms[c].players[i].kills
                              = rooms'[c].players[j].deaths - rooms[c].players[j].deaths]_vars

\* both players of a room have killed the other once, the second kill after
\* the first victim's respawn, and no connection has closed
C40_Witness ==
    /\ \A s \in Sockets : sockets[s].status # "closed"
    /\ \E c \in Registered :
          /\ Len(rooms[c].players) = 2
          /\ rooms[c].players[1].kills = 1
          /\ rooms[c].players[2].kills = 1
          /\ rooms[c].players[1].deaths = 1
          /\ rooms[c].players[2].deaths = 1

=============================================================================
